---- MODULE Spec2Model ----
(***************************************************************************)
(* A model of the wolf-rpg-data archive reader: the XOR key derivation,    *)
(* the header parser with its three tables, directory navigation, the      *)
(* directory walker, the file opener and the back-reference decompressor.  *)
(*                                                                         *)
(* The byte source is modelled at byte level.  A u64 read from the source  *)
(* is an Int; the sources of the model only carry 8-byte fields that are   *)
(* below 2^24 or equal to the all-ones sentinel (see from_le_bytes).       *)
(***************************************************************************)
EXTENDS Integers, Sequences, FiniteSets, Bags, TLC

(***************************************************************************)
(* Byte arithmetic                                                         *)
(***************************************************************************)

RECURSIVE BitXor(_, _)
BitXor(a, b) ==
    IF a = 0 THEN b
    ELSE IF b = 0 THEN a
    ELSE ((a + b) % 2) + 2 * BitXor(a \div 2, b \div 2)

RECURSIVE BitOr(_, _)
BitOr(a, b) ==
    IF a = 0 THEN b
    ELSE IF b = 0 THEN a
    ELSE (IF (a % 2) + (b % 2) > 0 THEN 1 ELSE 0) + 2 * BitOr(a \div 2, b \div 2)

RECURSIVE BitAnd(_, _)
BitAnd(a, b) ==
    IF a = 0 \/ b = 0 THEN 0
    ELSE ((a % 2) * (b % 2)) + 2 * BitAnd(a \div 2, b \div 2)

RECURSIVE Pow2(_)
Pow2(n) == IF n = 0 THEN 1 ELSE 2 * Pow2(n - 1)

\* u8 operators: `!`, `>>` and `<<` on a u8 (the shift drops the bits that leave the byte)
Not8(b) == 255 - b
Shr8(b, n) == b \div Pow2(n)
Shl8(b, n) == (b * Pow2(n)) % 256

KEY_LEN == 12

DEFAULT_KEY_STRING == <<56, 80, 64, 40, 114, 79, 33, 112, 59, 115, 53, 56>>

\* A variant of create_key whose left shifts keep the bits that leave the byte.
create_key_wide(s) ==
    << Not8(s[1]),
       BitOr(Shr8(s[2], 4), s[2] * 16),
       BitXor(s[3], 138),
       Not8(BitOr(Shr8(s[4], 4), s[4] * 16)) % 256,
       Not8(s[5]),
       BitXor(s[6], 172),
       Not8(s[7]),
       Not8(BitOr(Shr8(s[8], 3), s[8] * 32)) % 256,
       BitOr(Shr8(s[9], 5), s[9] * 8),
       BitXor(s[10], 127),
       BitXor(BitOr(Shr8(s[11], 4), s[11] * 16), 214),
       BitXor(s[12], 204) >>

\* A variant of create_key that leaves out the complement of key[3].
create_key_plain3(s) ==
    << Not8(s[1]), BitOr(Shr8(s[2], 4), Shl8(s[2], 4)), BitXor(s[3], 138),
       BitOr(Shr8(s[4], 4), Shl8(s[4], 4)), Not8(s[5]), BitXor(s[6], 172),
       Not8(s[7]), Not8(BitOr(Shr8(s[8], 3), Shl8(s[8], 5))),
       BitOr(Shr8(s[9], 5), Shl8(s[9], 3)), BitXor(s[10], 127),
       BitXor(BitOr(Shr8(s[11], 4), Shl8(s[11], 4)), 214), BitXor(s[12], 204) >>

\* create_key: the twelve per-byte transforms (1-based here, 0-based in the source)
create_key(s) ==
    << Not8(s[1]),
       BitOr(Shr8(s[2], 4), Shl8(s[2], 4)),
       BitXor(s[3], 138),
       Not8(BitOr(Shr8(s[4], 4), Shl8(s[4], 4))),
       Not8(s[5]),
       BitXor(s[6], 172),
       Not8(s[7]),
       Not8(BitOr(Shr8(s[8], 3), Shl8(s[8], 5))),
       BitOr(Shr8(s[9], 5), Shl8(s[9], 3)),
       BitXor(s[10], 127),
       BitXor(BitOr(Shr8(s[11], 4), Shl8(s[11], 4)), 214),
       BitXor(s[12], 204) >>

\* key_xor: buffer[i] ^= key[(position + i) % key_len]
key_xor(position, k, buffer) ==
    SubSeq([i \in 1..Len(buffer) |->
                BitXor(buffer[i], k[((position + (i - 1)) % KEY_LEN) + 1])],
           1, Len(buffer))

(***************************************************************************)
(* Integers on disk                                                        *)
(***************************************************************************)

\* u64::MAX, the "absent" sentinel.  An Int of the model cannot hold 2^64 - 1;
\* the all-ones field is read as this value, above every other value read.
U64_MAX == 2147483647

\* The value read for a field that is above 2^24 and not the sentinel.
U64_BIG == 1024 * 1024 * 1024

FILE_ENTRY_SIZE == 64

\* Attributes::Directory
ATTR_DIRECTORY == 16

\* Attributes::Archive
ATTR_ARCHIVE == 32

\* uN::from_le_bytes: exact below 2^24
from_le_bytes(bs) ==
    IF Len(bs) = 8 /\ \A i \in 1..8 : bs[i] = 255 THEN U64_MAX
    ELSE IF \E i \in 4..Len(bs) : bs[i] # 0 THEN U64_BIG
    ELSE bs[1] + (IF Len(bs) >= 2 THEN 256 * bs[2] ELSE 0)
               + (IF Len(bs) >= 3 THEN 65536 * bs[3] ELSE 0)

\* Attributes::contains(Attributes::Directory), on the value of the bitfield
is_dir(file_entry) == BitAnd(file_entry.attributes, ATTR_DIRECTORY) = ATTR_DIRECTORY

(***************************************************************************)
(* The byte sources of the model.  Each is an archive image written out    *)
(* field by field and enciphered with the derived key; the images differ   *)
(* in the one defect each carries.                                         *)
(***************************************************************************)

KEY == create_key(DEFAULT_KEY_STRING)

to_le_bytes(v, n) ==
    SubSeq([i \in 1..n |-> IF v = U64_MAX THEN 255
                           ELSE IF i = 1 THEN v % 256
                           ELSE IF i = 2 THEN (v \div 256) % 256
                           ELSE IF i = 3 THEN (v \div 65536) % 256
                           ELSE 0],
           1, n)

RECURSIVE Flatten(_)
Flatten(ss) == IF ss = <<>> THEN <<>> ELSE Head(ss) \o Flatten(Tail(ss))

RECURSIVE Sum16(_)
Sum16(bs) == IF bs = <<>> THEN 0 ELSE (Head(bs) + Sum16(Tail(bs))) % 65536

Upper(b) == IF b >= 97 /\ b <= 122 THEN b - 32 ELSE b

Pad4(bs) == bs \o SubSeq(<<0, 0, 0>>, 1, (4 - (Len(bs) % 4)) % 4)

\* A name-table entry for the name bs, with its parity changed by parityDelta.
NameEntryBytes(bs, parityDelta) ==
    LET padded == Pad4(bs)
        upper  == SubSeq([i \in 1..Len(padded) |-> Upper(padded[i])], 1, Len(padded))
    IN  to_le_bytes(Len(padded) \div 4, 2)
        \o to_le_bytes((Sum16(upper) + parityDelta) % 65536, 2)
        \o upper \o padded

\* A name-table entry of len * 4 bytes per copy for the name bs: the name is
\* followed by NUL bytes up to that length.
LongNameEntryBytes(bs, parityDelta, len) ==
    LET upper == SubSeq([i \in 1..Len(bs) |-> Upper(bs[i])], 1, Len(bs))
        fill  == SubSeq([i \in 1..((4 * len) - Len(bs)) |-> 0], 1, (4 * len) - Len(bs))
    IN  to_le_bytes(len, 2)
        \o to_le_bytes((Sum16(upper) + parityDelta) % 65536, 2)
        \o upper \o fill \o bs \o fill

\* The entry of a name of a description: <<name bytes, parity delta>>, or
\* <<name bytes, parity delta, len>> for a name padded beyond the next
\* multiple of four.
NameEntryOf(n) ==
    IF Len(n) = 2 THEN NameEntryBytes(n[1], n[2]) ELSE LongNameEntryBytes(n[1], n[2], n[3])

FileEntryBytes(f) ==
    to_le_bytes(f.name_position, 8) \o to_le_bytes(f.attributes, 8)
    \o to_le_bytes(f.created, 8) \o to_le_bytes(f.accessed, 8)
    \o to_le_bytes(f.modified, 8) \o to_le_bytes(f.data_position, 8)
    \o to_le_bytes(f.data_size, 8) \o to_le_bytes(f.compressed_data_size, 8)

DirectoryEntryBytes(d) ==
    to_le_bytes(d.directory_position, 8) \o to_le_bytes(d.parent_directory_position, 8)
    \o to_le_bytes(d.num_files, 8) \o to_le_bytes(d.file_head_position, 8)

\* Bytes between the fixed header and the name table, so that the seek to
\* file_name_table_position moves the source.
HeaderGapBytes == <<0, 0, 0>>

HEADER_GAP == Len(HeaderGapBytes)

\* magic, version, file_header_size and five u64 fields
HEADER_LEN == 2 + 2 + 4 + (5 * 8)

\* names: sequence of names as NameEntryOf takes them; files, dirs: sequences
\* of records; payload: the enciphered payload region.
ArchiveImage(names, files, dirs, payload) ==
    LET nt   == Flatten([i \in 1..Len(names) |-> NameEntryOf(names[i])])
        ft   == Flatten([i \in 1..Len(files) |-> FileEntryBytes(files[i])])
        dt   == Flatten([i \in 1..Len(dirs) |-> DirectoryEntryBytes(dirs[i])])
        fntp == HEADER_LEN + HEADER_GAP
        ftp  == Len(nt)
        dtp  == ftp + Len(ft)
        fhs  == dtp + Len(dt)
        head == <<68, 88>> \o to_le_bytes(6, 2) \o to_le_bytes(fhs, 4)
                \o to_le_bytes(fntp + fhs, 8) \o to_le_bytes(fntp, 8)
                \o to_le_bytes(ftp, 8) \o to_le_bytes(dtp, 8) \o to_le_bytes(932, 8)
                \o HeaderGapBytes
    IN  key_xor(0, KEY, head \o nt \o ft \o dt) \o payload

FileRec(np, attrs, dp, size, csize) ==
    [name_position |-> np, attributes |-> attrs, created |-> 0, accessed |-> 0,
     modified |-> 0, data_position |-> dp, data_size |-> size,
     compressed_data_size |-> csize]

DirRec(dpos, parent, n, head) ==
    [directory_position |-> dpos, parent_directory_position |-> parent,
     num_files |-> n, file_head_position |-> head]

(***************************************************************************)
(* The underlying source R: Read + Seek.  A source is a record             *)
(* [bytes, bad]: its content and the offsets at which a read fails.        *)
(***************************************************************************)

Min(a, b) == IF a < b THEN a ELSE b

Max(a, b) == IF a > b THEN a ELSE b

MinOf(S) == CHOOSE x \in S : \A y \in S : x <= y

\* Read::read(&mut buf[..n]) at offset off: the bytes up to the end of the
\* content or the first failing offset; an error if the first byte fails.
source_read(s, off, n) ==
    LET ReadUpTo(end, hits) ==
            IF hits # {} /\ MinOf(hits) = off
            THEN [ok |-> FALSE, bytes |-> <<>>, off |-> off]
            ELSE IF hits # {}
            THEN [ok |-> TRUE, bytes |-> SubSeq(s.bytes, off + 1, MinOf(hits)),
                  off |-> MinOf(hits)]
            ELSE IF off >= end
            THEN [ok |-> TRUE, bytes |-> <<>>, off |-> off]
            ELSE [ok |-> TRUE, bytes |-> SubSeq(s.bytes, off + 1, end), off |-> end]
        Within(end) == ReadUpTo(end, {b \in s.bad : b >= off /\ b < end})
    IN  Within(Min(off + n, Len(s.bytes)))

\* Read::read_exact: reads until n bytes are there; fails on a failing offset
\* and on the end of the content, having consumed what came before.
read_exact(s, off, n) ==
    LET hits == {b \in s.bad : b >= off /\ b < Min(off + n, Len(s.bytes))}
    IN  IF hits # {}
        THEN [ok |-> FALSE, bytes |-> <<>>, off |-> MinOf(hits)]
        ELSE IF off + n > Len(s.bytes)
        THEN [ok |-> FALSE, bytes |-> <<>>, off |-> Max(off, Len(s.bytes))]
        ELSE [ok |-> TRUE, bytes |-> SubSeq(s.bytes, off + 1, off + n), off |-> off + n]

\* reader.by_ref().take(limit).read_to_end(&mut input)
read_to_end_take(s, off, limit) ==
    LET end  == Max(off, Min(off + limit, Len(s.bytes)))
        hits == {b \in s.bad : b >= off /\ b < end}
    IN  IF hits # {}
        THEN [ok |-> FALSE, bytes |-> <<>>, off |-> MinOf(hits)]
        ELSE [ok |-> TRUE, bytes |-> SubSeq(s.bytes, off + 1, end), off |-> end]

\* Seek::seek(SeekFrom::Start(n)): an in-memory source accepts every offset.
source_seek(s, n) == [ok |-> TRUE, off |-> n]

(***************************************************************************)
(* ArchiveReader: decoding primitives.  st = [off, position] is the offset *)
(* of the source and the cipher position (self.position).                  *)
(***************************************************************************)

read_encoded(s, k, st, n) ==
    LET Decode(r) ==
            IF r.ok
            THEN [ok |-> TRUE, off |-> r.off, position |-> st.position + n,
                  bytes |-> key_xor(st.position, k, r.bytes)]
            ELSE [ok |-> FALSE, off |-> r.off, position |-> st.position, bytes |-> <<>>]
    IN  Decode(read_exact(s, st.off, n))

StOf(r) == [off |-> r.off, position |-> r.position]

\* read_encoded_u16 / _u32 / _u64
read_encoded_uint(s, k, st, n) ==
    LET Value(r) ==
            [ok |-> r.ok, off |-> r.off, position |-> r.position,
             value |-> IF r.ok THEN from_le_bytes(r.bytes) ELSE 0]
    IN  Value(read_encoded(s, k, st, n))

\* count consecutive read_encoded_u64 calls, stopping at the first failure
RECURSIVE read_u64_fields(_, _, _, _, _)
read_u64_fields(s, k, st, count, acc) ==
    IF count = 0 THEN [ok |-> TRUE, off |-> st.off, position |-> st.position, values |-> acc]
    ELSE LET Then(r) ==
                 IF ~r.ok
                 THEN [ok |-> FALSE, off |-> r.off, position |-> r.position, values |-> acc]
                 ELSE read_u64_fields(s, k, StOf(r), count - 1, Append(acc, r.value))
         IN  Then(read_encoded_uint(s, k, st, 8))

\* encoding_rs SHIFT_JIS decode_without_bom_handling: one-byte characters as
\* the encoding maps them, a two-byte character as the pair it is made of
\* (the JIS X 0208 index is not part of this repository).
RECURSIVE sjis_decode(_)
sjis_decode(bs) ==
    IF bs = <<>> THEN [malformed |-> FALSE, chars |-> <<>>]
    ELSE LET b == Head(bs)
         IN  IF b <= 128
             THEN LET r == sjis_decode(Tail(bs))
                  IN  [malformed |-> r.malformed, chars |-> <<b>> \o r.chars]
             ELSE IF b >= 161 /\ b <= 223
             THEN LET r == sjis_decode(Tail(bs))
                  IN  [malformed |-> r.malformed, chars |-> <<65377 + (b - 161)>> \o r.chars]
             ELSE IF (b >= 129 /\ b <= 159) \/ (b >= 224 /\ b <= 252)
             THEN IF Len(bs) >= 2 /\ ((bs[2] >= 64 /\ bs[2] <= 126) \/ (bs[2] >= 128 /\ bs[2] <= 252))
                  THEN LET r == sjis_decode(Tail(Tail(bs)))
                       IN  [malformed |-> r.malformed,
                            chars |-> <<65536 + 256 * b + bs[2]>> \o r.chars]
                  ELSE [malformed |-> TRUE, chars |-> <<>>]
             ELSE [malformed |-> TRUE, chars |-> <<>>]

\* while s.ends_with("\0") { s.pop(); }
RECURSIVE strip_nul(_)
strip_nul(cs) ==
    IF cs # <<>> /\ cs[Len(cs)] = 0 THEN strip_nul(SubSeq(cs, 1, Len(cs) - 1)) ELSE cs

NameFail(res, r) == [res |-> res, off |-> r.off, position |-> r.position, name |-> <<>>]

\* read_file_name_data.  checks: the build checks arithmetic overflow
\* (len * 4 is a u16 product).
read_file_name_data(s, k, st, checks) ==
    LET Decoded(rb, du, db) ==
            IF du.malformed \/ db.malformed THEN NameFail("InvalidFileName", rb)
            ELSE [res |-> "Ok", off |-> rb.off, position |-> rb.position,
                  name |-> strip_nul(db.chars)]
        AfterBytes(ru, rb) ==
            IF ~rb.ok THEN NameFail("Io", rb)
            ELSE Decoded(rb, sjis_decode(ru.bytes), sjis_decode(rb.bytes))
        AfterUpper(rp, n, ru) ==
            IF ~ru.ok THEN NameFail("Io", ru)
            ELSE IF Sum16(ru.bytes) # rp.value THEN NameFail("InvalidFileNameParity", ru)
            ELSE AfterBytes(ru, read_encoded(s, k, StOf(ru), n))
        AfterParity(rl, rp) ==
            IF ~rp.ok THEN NameFail("Io", rp)
            ELSE IF rl.value = 0
            THEN IF rp.value # 0 THEN NameFail("InvalidFileNameParity", rp)
                 ELSE NameFail("Ok", rp)
            ELSE IF rl.value * 4 >= 65536 /\ checks THEN NameFail("Panic", rp)
            ELSE AfterUpper(rp, (rl.value * 4) % 65536,
                            read_encoded(s, k, StOf(rp), (rl.value * 4) % 65536))
        AfterLen(rl) ==
            IF ~rl.ok THEN NameFail("Io", rl)
            ELSE AfterParity(rl, read_encoded_uint(s, k, StOf(rl), 2))
    IN  AfterLen(read_encoded_uint(s, k, st, 2))

\* Option<u64> from the sentinel
None == [some |-> FALSE]

Some(v) == [some |-> TRUE, value |-> v]

OptionOf(v) == IF v = U64_MAX THEN None ELSE Some(v)

\* read_file_entry
read_file_entry(s, k, st) ==
    LET Entry(r) ==
            [ok |-> r.ok, off |-> r.off, position |-> r.position,
             entry |-> IF ~r.ok THEN None
                       ELSE [name_position |-> r.values[1],
                             attributes |-> r.values[2],
                             file_times |-> [created |-> r.values[3],
                                             accessed |-> r.values[4],
                                             modified |-> r.values[5]],
                             data_position |-> r.values[6],
                             data_size |-> r.values[7],
                             compressed_data_size |-> OptionOf(r.values[8])]]
    IN  Entry(read_u64_fields(s, k, st, 8, <<>>))

\* read_directory_entry
read_directory_entry(s, k, st) ==
    LET Entry(r) ==
            [ok |-> r.ok, off |-> r.off, position |-> r.position,
             entry |-> IF ~r.ok THEN None
                       ELSE [directory_position |-> r.values[1],
                             parent_directory_position |-> OptionOf(r.values[2]),
                             num_files |-> r.values[3],
                             file_head_position |-> r.values[4]]]
    IN  Entry(read_u64_fields(s, k, st, 4, <<>>))

(***************************************************************************)
(* ArchiveReader::read_header                                              *)
(***************************************************************************)

EmptyTable == <<>>

TableInsert(table, key, value) == (key :> value) @@ table

HeaderFail(res, r) == [res |-> res, off |-> r.off, position |-> r.position]

\* The loops of read_header subtract file_name_table_position, and then
\* file_table_position or directory_table_position, from the cipher position
\* in u64.  A difference below zero is a panic in a build that checks
\* overflow and a wrapped value in one that does not; the loops end the call
\* with Panic for both.

\* The first loop of read_header: name entries keyed by their offset in the
\* name table.
RECURSIVE name_table_loop(_, _, _, _, _, _, _)
name_table_loop(s, k, st, fntp, ftp, table, checks) ==
    LET relative_position == st.position - fntp
        Insert(r) ==
            IF r.res # "Ok"
            THEN [res |-> r.res, off |-> r.off, position |-> r.position, table |-> table]
            ELSE name_table_loop(s, k, StOf(r), fntp, ftp,
                                 TableInsert(table, relative_position, r.name), checks)
    IN  IF relative_position < 0
        THEN [res |-> "Panic", off |-> st.off, position |-> st.position, table |-> table]
        ELSE IF relative_position >= ftp
        THEN [res |-> "Ok", off |-> st.off, position |-> st.position, table |-> table]
        ELSE Insert(read_file_name_data(s, k, st, checks))

\* A variant of the second loop that keys the entries by header_position.
RECURSIVE file_table_loop_abs(_, _, _, _, _, _, _)
file_table_loop_abs(s, k, st, fntp, ftp, dtp, table) ==
    LET header_position == st.position - fntp
        Insert(r) ==
            IF ~r.ok
            THEN [res |-> "Io", off |-> r.off, position |-> r.position, table |-> table]
            ELSE file_table_loop_abs(s, k, StOf(r), fntp, ftp, dtp,
                                     TableInsert(table, header_position, r.entry))
    IN  IF header_position < 0
        THEN [res |-> "Panic", off |-> st.off, position |-> st.position, table |-> table]
        ELSE IF header_position >= dtp
        THEN [res |-> "Ok", off |-> st.off, position |-> st.position, table |-> table]
        ELSE Insert(read_file_entry(s, k, st))

\* The second loop: file entries keyed by their offset in the file table.
RECURSIVE file_table_loop(_, _, _, _, _, _, _)
file_table_loop(s, k, st, fntp, ftp, dtp, table) ==
    LET header_position == st.position - fntp
        relative_position == st.position - fntp - ftp
        Insert(r) ==
            IF ~r.ok
            THEN [res |-> "Io", off |-> r.off, position |-> r.position, table |-> table]
            ELSE file_table_loop(s, k, StOf(r), fntp, ftp, dtp,
                                 TableInsert(table, relative_position, r.entry))
    IN  IF header_position < 0
        THEN [res |-> "Panic", off |-> st.off, position |-> st.position, table |-> table]
        ELSE IF header_position >= dtp
        THEN [res |-> "Ok", off |-> st.off, position |-> st.position, table |-> table]
        ELSE IF relative_position < 0
        THEN [res |-> "Panic", off |-> st.off, position |-> st.position, table |-> table]
        ELSE Insert(read_file_entry(s, k, st))

\* The third loop: directory entries keyed by their offset in the directory
\* table.
RECURSIVE directory_table_loop(_, _, _, _, _, _, _)
directory_table_loop(s, k, st, fntp, dtp, fhs, table) ==
    LET header_position == st.position - fntp
        relative_position == st.position - fntp - dtp
        Insert(r) ==
            IF ~r.ok
            THEN [res |-> "Io", off |-> r.off, position |-> r.position, table |-> table]
            ELSE directory_table_loop(s, k, StOf(r), fntp, dtp, fhs,
                                      TableInsert(table, relative_position, r.entry))
    IN  IF header_position < 0
        THEN [res |-> "Panic", off |-> st.off, position |-> st.position, table |-> table]
        ELSE IF header_position >= fhs
        THEN [res |-> "Ok", off |-> st.off, position |-> st.position, table |-> table]
        ELSE IF relative_position < 0
        THEN [res |-> "Panic", off |-> st.off, position |-> st.position, table |-> table]
        ELSE Insert(read_directory_entry(s, k, st))

\* A variant that stores the tables as they are filled, so that a failing
\* loop leaves what was parsed before it.
read_header_tables_partial(s, k, st, fhs, data_position, fntp, ftp, dtp, checks) ==
    LET Stored(n, f, d, end) ==
            [res |-> end.res, off |-> end.off, position |-> end.position,
             header_data |-> [some |-> TRUE,
                              data_position |-> data_position,
                              file_name_table |-> n.table,
                              file_table |-> f.table,
                              directory_table |-> d.table]]
        NoTable == [table |-> EmptyTable]
        AfterDirs(n, f, d) == Stored(n, f, d, d)
        AfterFiles(n, f) ==
            IF f.res # "Ok" THEN Stored(n, f, NoTable, f)
            ELSE AfterDirs(n, f, directory_table_loop(s, k, StOf(f), fntp, dtp, fhs, EmptyTable))
        AfterNames(n) ==
            IF n.res # "Ok" THEN Stored(n, NoTable, NoTable, n)
            ELSE AfterFiles(n, file_table_loop(s, k, StOf(n), fntp, ftp, dtp, EmptyTable))
    IN  AfterNames(name_table_loop(s, k, st, fntp, ftp, EmptyTable, checks))

\* The three loops and the final assignment of header_data.
read_header_tables(s, k, st, fhs, data_position, fntp, ftp, dtp, checks) ==
    LET AfterDirs(n, f, d) ==
            IF d.res # "Ok" THEN HeaderFail(d.res, d) @@ [header_data |-> None]
            ELSE [res |-> "Ok", off |-> d.off, position |-> d.position,
                  header_data |-> [some |-> TRUE,
                                   data_position |-> data_position,
                                   file_name_table |-> n.table,
                                   file_table |-> f.table,
                                   directory_table |-> d.table]]
        AfterFiles(n, f) ==
            IF f.res # "Ok" THEN HeaderFail(f.res, f) @@ [header_data |-> None]
            ELSE AfterDirs(n, f, directory_table_loop(s, k, StOf(f), fntp, dtp, fhs, EmptyTable))
        AfterNames(n) ==
            IF n.res # "Ok" THEN HeaderFail(n.res, n) @@ [header_data |-> None]
            ELSE AfterFiles(n, file_table_loop(s, k, StOf(n), fntp, ftp, dtp, EmptyTable))
    IN  AfterNames(name_table_loop(s, k, st, fntp, ftp, EmptyTable, checks))

\* read_header after the header_data.is_some() check: the fixed fields, the
\* seek to the name table and the three loops.
read_header_parse(s, k, st, checks) ==
    LET AfterSeek(rs, rf, sk) ==
            IF ~sk.ok THEN HeaderFail("Io", rf) @@ [header_data |-> None]
            ELSE read_header_tables(s, k, [off |-> sk.off, position |-> sk.off], rs.value,
                                    rf.values[1], rf.values[2], rf.values[3], rf.values[4],
                                    checks)
        AfterFields(rs, rf) ==
            IF ~rf.ok THEN HeaderFail("Io", rf) @@ [header_data |-> None]
            ELSE IF rf.values[5] # 932
            THEN HeaderFail("UnknownCodePage", rf) @@ [header_data |-> None]
            ELSE AfterSeek(rs, rf, source_seek(s, rf.values[2]))
        AfterSize(rs) ==
            IF ~rs.ok THEN HeaderFail("Io", rs) @@ [header_data |-> None]
            ELSE AfterFields(rs, read_u64_fields(s, k, StOf(rs), 5, <<>>))
        AfterVersion(rv) ==
            IF ~rv.ok THEN HeaderFail("Io", rv) @@ [header_data |-> None]
            ELSE IF rv.value # 6 THEN HeaderFail("InvalidVersion", rv) @@ [header_data |-> None]
            ELSE AfterSize(read_encoded_uint(s, k, StOf(rv), 4))
        AfterMagic(rm) ==
            IF ~rm.ok THEN HeaderFail("Io", rm) @@ [header_data |-> None]
            ELSE IF rm.bytes # <<68, 88>>
            THEN HeaderFail("InvalidMagic", rm) @@ [header_data |-> None]
            ELSE AfterVersion(read_encoded_uint(s, k, StOf(rm), 2))
    IN  AfterMagic(read_encoded(s, k, st, 2))

\* A read_header without the header_data.is_some() check.
read_header_unguarded(s, k, st, header_data, checks) ==
    LET Keep(r) ==
            [res |-> r.res, off |-> r.off, position |-> r.position,
             header_data |-> IF r.res = "Ok" THEN r.header_data ELSE header_data]
    IN  Keep(read_header_parse(s, k, st, checks))

\* read_header: the result, the source offset, the cipher position and
\* header_data after the call.
read_header(s, k, st, header_data, checks) ==
    IF header_data.some
    THEN [res |-> "HeaderAlreadyRead", off |-> st.off, position |-> st.position,
          header_data |-> header_data]
    ELSE read_header_parse(s, k, st, checks)

(***************************************************************************)
(* Navigation over the parsed tables.  Each operator is the Result of the  *)
(* method: res is "Ok" or the error, val the value of an Ok.               *)
(***************************************************************************)

Result(res, val) == [res |-> res, val |-> val]

Err(res) == [res |-> res, val |-> None]

HasKey(table, key) == key \in DOMAIN table

get_file_name(h, file_entry) ==
    IF ~h.some THEN Err("HeaderNotRead")
    ELSE IF ~HasKey(h.file_name_table, file_entry.name_position)
    THEN Err("InvalidFileNamePosition")
    ELSE Result("Ok", h.file_name_table[file_entry.name_position])

get_dir_from_file(h, file_entry) ==
    IF ~h.some THEN Err("HeaderNotRead")
    ELSE IF ~is_dir(file_entry) THEN Err("NotADir")
    ELSE IF ~HasKey(h.directory_table, file_entry.data_position)
    THEN Err("InvalidDirectoryPosition")
    ELSE Result("Ok", h.directory_table[file_entry.data_position])

get_dir_file(h, directory, index) ==
    IF ~h.some THEN Err("HeaderNotRead")
    ELSE IF index >= directory.num_files THEN Result("Ok", None)
    ELSE LET position == directory.file_head_position + index * FILE_ENTRY_SIZE
         IN  IF ~HasKey(h.file_table, position) THEN Err("InvalidDirectoryFileIndex")
             ELSE Result("Ok", Some(h.file_table[position]))

get_file_from_dir(h, directory_entry) ==
    IF ~h.some THEN Err("HeaderNotRead")
    ELSE IF ~HasKey(h.file_table, directory_entry.directory_position)
    THEN Err("InvalidFilePosition")
    ELSE Result("Ok", h.file_table[directory_entry.directory_position])

get_root_dir(h) ==
    IF ~h.some THEN Err("HeaderNotRead")
    ELSE IF HasKey(h.directory_table, 0) THEN Result("Ok", Some(h.directory_table[0]))
    ELSE Result("Ok", None)

get_parent_dir(h, directory_entry) ==
    IF ~h.some THEN Err("HeaderNotRead")
    ELSE IF ~directory_entry.parent_directory_position.some THEN Result("Ok", None)
    ELSE IF ~HasKey(h.directory_table, directory_entry.parent_directory_position.value)
    THEN Err("InvalidDirectoryPosition")
    ELSE Result("Ok", Some(h.directory_table[directory_entry.parent_directory_position.value]))

\* walk_dir: the stack of the new iterator, vec![(file_entry, Vec::new())]
walk_dir(h, dir) ==
    LET New(r) ==
            IF r.res # "Ok" THEN Err(r.res)
            ELSE Result("Ok", << [file_entry |-> r.val, path_components |-> <<>>] >>)
    IN  New(get_file_from_dir(h, dir))

(***************************************************************************)
(* WalkDirIter::next                                                       *)
(***************************************************************************)

\* A variant of the loop that pushes the children from the first to the last.
RECURSIVE push_children_forward(_, _, _, _, _)
push_children_forward(h, dir_entry, remaining, path_components, stack) ==
    LET Push(f, n) ==
            IF n.res # "Ok" THEN [res |-> n.res, stack |-> stack]
            ELSE push_children_forward(h, dir_entry, remaining - 1, path_components,
                     Append(stack, [file_entry |-> f.val.value,
                                    path_components |-> Append(path_components, n.val)]))
        Child(f) ==
            IF f.res # "Ok" THEN [res |-> f.res, stack |-> stack]
            ELSE IF ~f.val.some THEN [res |-> "InvalidFilePosition", stack |-> stack]
            ELSE Push(f, get_file_name(h, f.val.value))
    IN  IF remaining = 0 THEN [res |-> "Ok", stack |-> stack]
        ELSE Child(get_dir_file(h, dir_entry, dir_entry.num_files - remaining))

\* for file_index in (0..num_files).rev(): remaining = file_index + 1
RECURSIVE push_children(_, _, _, _, _)
push_children(h, dir_entry, remaining, path_components, stack) ==
    LET Push(f, n) ==
            IF n.res # "Ok" THEN [res |-> n.res, stack |-> stack]
            ELSE push_children(h, dir_entry, remaining - 1, path_components,
                     Append(stack, [file_entry |-> f.val.value,
                                    path_components |-> Append(path_components, n.val)]))
        Child(f) ==
            IF f.res # "Ok" THEN [res |-> f.res, stack |-> stack]
            ELSE IF ~f.val.some THEN [res |-> "InvalidFilePosition", stack |-> stack]
            ELSE Push(f, get_file_name(h, f.val.value))
    IN  IF remaining = 0 THEN [res |-> "Ok", stack |-> stack]
        ELSE Child(get_dir_file(h, dir_entry, remaining - 1))

\* A variant of next that reads the top of the stack and leaves it there.
walk_next_peek(h, stack) ==
    LET Pushed(top, p) ==
            IF p.res # "Ok"
            THEN [item |-> Some(Err(p.res)), stack |-> p.stack]
            ELSE [item |-> Some(Result("Ok", top)), stack |-> p.stack]
        Dir(top, popped, d) ==
            IF d.res # "Ok" THEN [item |-> Some(Err(d.res)), stack |-> popped]
            ELSE Pushed(top, push_children(h, d.val, d.val.num_files,
                                           top.path_components, popped))
        Popped(top, popped) ==
            IF ~is_dir(top.file_entry)
            THEN [item |-> Some(Result("Ok", top)), stack |-> popped]
            ELSE Dir(top, popped, get_dir_from_file(h, top.file_entry))
    IN  IF stack = <<>> THEN [item |-> None, stack |-> stack]
        ELSE Popped(stack[Len(stack)], stack)

\* next: item is None at the end, else Some(Result); stack is the stack after
\* the call.
walk_next(h, stack) ==
    LET Pushed(top, p) ==
            IF p.res # "Ok"
            THEN [item |-> Some(Err(p.res)), stack |-> p.stack]
            ELSE [item |-> Some(Result("Ok", top)), stack |-> p.stack]
        Dir(top, popped, d) ==
            IF d.res # "Ok" THEN [item |-> Some(Err(d.res)), stack |-> popped]
            ELSE Pushed(top, push_children(h, d.val, d.val.num_files,
                                           top.path_components, popped))
        Popped(top, popped) ==
            IF ~is_dir(top.file_entry)
            THEN [item |-> Some(Result("Ok", top)), stack |-> popped]
            ELSE Dir(top, popped, get_dir_from_file(h, top.file_entry))
    IN  IF stack = <<>> THEN [item |-> None, stack |-> stack]
        ELSE Popped(stack[Len(stack)], SubSeq(stack, 1, Len(stack) - 1))

(***************************************************************************)
(* decompress_file_data.  The outcome is "Some" (with the output), "None"  *)
(* or "Panic" (a usize subtraction below zero, or a copy_within range      *)
(* outside the vector: both builds end in a panic there).                  *)
(***************************************************************************)

MIN_COMPRESS == 4

Zeros(n) == SubSeq([i \in 1..n |-> 0], 1, n)

\* output.resize(old_len + n, 0); let start = old_len - back;
\* output.copy_within(start..(start + n), old_len)
copy_back(output, back, n) ==
    LET old_len == Len(output)
        start   == old_len - back
    IN  IF start < 0 \/ start + n > old_len + n
        THEN [res |-> "Panic", output |-> output]
        ELSE LET resized == output \o Zeros(n)
             IN  [res |-> "Some",
                  output |-> output \o SubSeq(resized, start + 1, start + n)]

\* while run_len > num { copy num bytes; run_len -= num; num += num }
\* if run_len != 0 { copy run_len bytes from old_len - num }
RECURSIVE copy_doubling(_, _, _)
copy_doubling(output, run_len, num) ==
    LET Copied(c) ==
            IF c.res # "Some" THEN c
            ELSE copy_doubling(c.output, run_len - num, num + num)
    IN  IF run_len > num THEN Copied(copy_back(output, num, num))
        ELSE IF run_len # 0 THEN copy_back(output, num, run_len)
        ELSE [res |-> "Some", output |-> output]

\* A variant that copies every back-reference with the one copy_within of the
\* `else` branch.
copy_run_single(output, index, run_len) ==
    copy_back(output, index, run_len)

\* The copy of one back-reference: both branches of `if index < run_len`.
copy_run(output, index, run_len) ==
    IF index < run_len THEN copy_doubling(output, run_len, index)
    ELSE copy_back(output, index, run_len)

DecompressNone(output) == [res |-> "None", output |-> output]

\* The body of the while loop, from the code byte on: input is what follows
\* the two bytes (key_code, input_1).
decode_reference(input, key_code, input_1) ==
    LET Index(run_len, index_size, rest) ==
            IF index_size = 0
            THEN IF Len(rest) < 1 THEN [ok |-> FALSE]
                 ELSE [ok |-> TRUE, run_len |-> run_len, index |-> rest[1] + 1,
                       rest |-> SubSeq(rest, 2, Len(rest))]
            ELSE IF index_size = 1
            THEN IF Len(rest) < 2 THEN [ok |-> FALSE]
                 ELSE [ok |-> TRUE, run_len |-> run_len,
                       index |-> rest[1] + 256 * rest[2] + 1,
                       rest |-> SubSeq(rest, 3, Len(rest))]
            ELSE IF index_size = 2
            THEN IF Len(rest) < 3 THEN [ok |-> FALSE]
                 ELSE [ok |-> TRUE, run_len |-> run_len,
                       index |-> rest[1] + 256 * rest[2] + 65536 * rest[3] + 1,
                       rest |-> SubSeq(rest, 4, Len(rest))]
            ELSE [ok |-> FALSE]
        RunLen(code) ==
            IF BitAnd(code, 4) # 0
            THEN IF input = <<>> THEN [ok |-> FALSE]
                 ELSE Index(BitOr(code \div 8, input[1] * 32) + MIN_COMPRESS,
                            BitAnd(code, 3), Tail(input))
            ELSE Index((code \div 8) + MIN_COMPRESS, BitAnd(code, 3), input)
    IN  RunLen(IF input_1 > key_code THEN input_1 - 1 ELSE input_1)

\* while !input.is_empty() { ... }
RECURSIVE decompress_body(_, _, _)
decompress_body(input, key_code, output) ==
    LET Copied(t, c) ==
            IF c.res # "Some" THEN c
            ELSE decompress_body(t.rest, key_code, c.output)
        Reference(t) ==
            IF ~t.ok THEN DecompressNone(output)
            ELSE Copied(t, copy_run(output, t.index, t.run_len))
    IN  IF input = <<>> THEN [res |-> "Some", output |-> output]
        ELSE IF input[1] # key_code
        THEN decompress_body(Tail(input), key_code, Append(output, input[1]))
        ELSE IF Len(input) < 2 THEN DecompressNone(output)
        ELSE IF input[2] = key_code
        THEN decompress_body(Tail(Tail(input)), key_code, Append(output, key_code))
        ELSE Reference(decode_reference(Tail(Tail(input)), key_code, input[2]))

decompress_file_data(input, size) ==
    IF Len(input) < 9 THEN DecompressNone(<<>>)
    ELSE LET dest_size == from_le_bytes(SubSeq(input, 1, 4))
             src_size  == from_le_bytes(SubSeq(input, 5, 8))
             key_code  == input[9]
         IN  IF dest_size # size THEN DecompressNone(<<>>)
             ELSE IF Len(input) # src_size THEN DecompressNone(<<>>)
             ELSE decompress_body(SubSeq(input, 10, Len(input)), key_code, <<>>)

(***************************************************************************)
(* ArchiveReader::get_file_reader and the two readers                      *)
(***************************************************************************)

NoReader == [kind |-> "None"]

\* FileReaderInner::Uncompressed: offset and size (the RefMut it holds is the
\* borrow flag of the model); file_data is unused.
UncompressedReader(size) ==
    [kind |-> "Uncompressed", offset |-> 0, size |-> size, file_data |-> <<>>]

\* FileReaderInner::Compressed: a Cursor over the output, offset its position;
\* size is unused.
CompressedReader(output) ==
    [kind |-> "Compressed", offset |-> 0, size |-> 0, file_data |-> output]

OpenFail(res, st, borrowed) ==
    [res |-> res, off |-> st.off, position |-> st.position, borrowed |-> borrowed,
     reader |-> NoReader]

\* get_file_reader after the seek: `match file_entry.compressed_data_size`.
\* sought is the source offset and the cipher position after the seek.  The
\* RefMut is a local: it is dropped on every path but the uncompressed one.
open_payload(s, k, sought, file_entry) ==
    LET Decompressed(after, d) ==
            IF d.res = "Panic" THEN OpenFail("Panic", after, FALSE)
            ELSE IF d.res = "None" THEN OpenFail("DecompressionFailed", after, FALSE)
            ELSE [res |-> "Ok", off |-> after.off, position |-> after.position,
                  borrowed |-> FALSE, reader |-> CompressedReader(d.output)]
        Taken(r, after) ==
            IF ~r.ok THEN OpenFail("Io", after, FALSE)
            ELSE Decompressed(after,
                              decompress_file_data(key_xor(file_entry.data_size, k, r.bytes),
                                                   file_entry.data_size))
        Compressed(r) == Taken(r, [off |-> r.off, position |-> sought.position])
    IN  IF file_entry.compressed_data_size.some
        THEN Compressed(read_to_end_take(s, sought.off, file_entry.compressed_data_size.value))
        ELSE [res |-> "Ok", off |-> sought.off, position |-> sought.position,
              borrowed |-> TRUE, reader |-> UncompressedReader(file_entry.data_size)]

SoughtFor(h, file_entry) ==
    [off |-> h.data_position + file_entry.data_position,
     position |-> h.data_position + file_entry.data_position]

\* A variant that reads from wherever the source stands, without the seek.
get_file_reader_noseek(s, k, h, borrowed, st, file_entry) ==
    IF ~h.some THEN OpenFail("HeaderNotRead", st, borrowed)
    ELSE IF is_dir(file_entry) THEN OpenFail("NotAFile", st, borrowed)
    ELSE IF borrowed THEN OpenFail("ReaderBusy", st, borrowed)
    ELSE open_payload(s, k, st, file_entry)

\* A variant in which the compressed path keeps the borrow.
get_file_reader_keep(s, k, h, borrowed, st, file_entry) ==
    IF ~h.some THEN OpenFail("HeaderNotRead", st, borrowed)
    ELSE IF is_dir(file_entry) THEN OpenFail("NotAFile", st, borrowed)
    ELSE IF borrowed THEN OpenFail("ReaderBusy", st, borrowed)
    ELSE [open_payload(s, k, SoughtFor(h, file_entry), file_entry) EXCEPT !.borrowed = TRUE]

\* A variant that seeks before it tries to borrow.
get_file_reader_seekfirst(s, k, h, borrowed, st, file_entry) ==
    IF ~h.some THEN OpenFail("HeaderNotRead", st, borrowed)
    ELSE IF is_dir(file_entry) THEN OpenFail("NotAFile", st, borrowed)
    ELSE IF borrowed THEN OpenFail("ReaderBusy", SoughtFor(h, file_entry), borrowed)
    ELSE open_payload(s, k, SoughtFor(h, file_entry), file_entry)

\* get_file_reader: the result, the source offset, the cipher position, the
\* borrow flag of the RefCell and the reader returned.
get_file_reader(s, k, h, borrowed, st, file_entry) ==
    LET Sought(sk) ==
            IF ~sk.ok THEN OpenFail("Io", st, FALSE)
            ELSE open_payload(s, k, [off |-> sk.off, position |-> sk.off], file_entry)
    IN  IF ~h.some THEN OpenFail("HeaderNotRead", st, borrowed)
        ELSE IF is_dir(file_entry) THEN OpenFail("NotAFile", st, borrowed)
        ELSE IF borrowed THEN OpenFail("ReaderBusy", st, borrowed)
        ELSE Sought(source_seek(s, h.data_position + file_entry.data_position))

\* A read that does not stop at size.
uncompressed_read_unbounded(s, k, off, reader, buffer_len, granted) ==
    LET Decoded(rd) ==
            IF ~rd.ok THEN [res |-> "Io", bytes |-> <<>>, off |-> rd.off, reader |-> reader]
            ELSE [res |-> "Ok",
                  bytes |-> key_xor(reader.offset + reader.size, k, rd.bytes),
                  off |-> rd.off,
                  reader |-> [reader EXCEPT !.offset = @ + Len(rd.bytes)]]
    IN  Decoded(source_read(s, off, Min(buffer_len, granted)))

\* A variant that addresses the key by the offset in the payload alone.
uncompressed_read_nosize(s, k, off, reader, buffer_len, granted) ==
    LET Decoded(rd) ==
            IF ~rd.ok THEN [res |-> "Io", bytes |-> <<>>, off |-> rd.off, reader |-> reader]
            ELSE [res |-> "Ok",
                  bytes |-> key_xor(reader.offset, k, rd.bytes),
                  off |-> rd.off,
                  reader |-> [reader EXCEPT !.offset = @ + Len(rd.bytes)]]
        limit == Min(reader.size - reader.offset, buffer_len)
    IN  IF reader.offset = reader.size
        THEN [res |-> "Ok", bytes |-> <<>>, off |-> off, reader |-> reader]
        ELSE Decoded(source_read(s, off, Min(limit, granted)))

\* UncompressedFileReaderInner::read with a buffer of buffer_len bytes; the
\* source returns at most granted bytes for this call (a short read).
uncompressed_read(s, k, off, reader, buffer_len, granted) ==
    LET Decoded(rd) ==
            IF ~rd.ok THEN [res |-> "Io", bytes |-> <<>>, off |-> rd.off, reader |-> reader]
            ELSE [res |-> "Ok",
                  bytes |-> key_xor(reader.offset + reader.size, k, rd.bytes),
                  off |-> rd.off,
                  reader |-> [reader EXCEPT !.offset = @ + Len(rd.bytes)]]
        limit == Min(reader.size - reader.offset, buffer_len)
    IN  IF reader.offset = reader.size
        THEN [res |-> "Ok", bytes |-> <<>>, off |-> off, reader |-> reader]
        ELSE Decoded(source_read(s, off, Min(limit, granted)))

\* CompressedFileReaderInner::read: Cursor<Vec<u8>>::read
compressed_read(reader, buffer_len) ==
    LET n == Min(buffer_len, Len(reader.file_data) - reader.offset)
    IN  [res |-> "Ok",
         bytes |-> SubSeq(reader.file_data, reader.offset + 1, reader.offset + n),
         reader |-> [reader EXCEPT !.offset = @ + n]]

(***************************************************************************)
(* The sources.  A description lists the name entries, the file entries,   *)
(* the directory entries, the payload region and the defects of the image: *)
(* cut (the image ends after cut bytes, 0 for none), flip (an offset whose *)
(* byte is changed, -1 for none) and bad (offsets at which a read fails).  *)
(***************************************************************************)

NoCompression == U64_MAX

NoParent == U64_MAX

FileAttr == ATTR_ARCHIVE

\* "hi!" stored as an uncompressed payload of 3 bytes
PayloadF == key_xor(3, KEY, <<104, 105, 33>>)

\* "AB" and one overlapping back-reference (distance 2, length 4): "ABABAB"
PlainC == <<6, 0, 0, 0, 14, 0, 0, 0, 0, 65, 66, 0, 1, 1>>

PayloadC == key_xor(6, KEY, PlainC)

\* "ABCD" and one back-reference with a length byte and a two-byte distance
\* (distance 4, length 4): "ABCDABCD"
PlainX == <<8, 0, 0, 0, 18, 0, 0, 0, 200, 65, 66, 67, 68, 200, 5, 0, 3, 0>>

PayloadX == key_xor(8, KEY, PlainX)

\* A flat archive of two files: f (uncompressed) and c (compressed).
DescG ==
    [names |-> << <<<<>>, 0>>, <<<<102>>, 0>>, <<<<99>>, 0>> >>,
     files |-> << FileRec(0, ATTR_DIRECTORY, 0, 0, NoCompression),
                  FileRec(4, FileAttr, 0, 3, NoCompression),
                  FileRec(16, FileAttr, 3, 6, 14) >>,
     dirs  |-> << DirRec(0, NoParent, 2, 64) >>,
     payload |-> PayloadF \o PayloadC,
     cut |-> 0, flip |-> -1, bad |-> {}]

\* An archive of the one compressed file x.
DescX ==
    [names |-> << <<<<>>, 0>>, <<<<120>>, 0>> >>,
     files |-> << FileRec(0, ATTR_DIRECTORY, 0, 0, NoCompression),
                  FileRec(4, FileAttr, 0, 8, 18) >>,
     dirs  |-> << DirRec(0, NoParent, 1, 64) >>,
     payload |-> PayloadX,
     cut |-> 0, flip |-> -1, bad |-> {}]

\* root/ holds a/ and b/, a/ holds x and y (both empty files), b/ is empty.
DescW ==
    [names |-> << <<<<>>, 0>>, <<<<97>>, 0>>, <<<<98>>, 0>>, <<<<120>>, 0>>, <<<<121>>, 0>> >>,
     files |-> << FileRec(0, ATTR_DIRECTORY, 0, 0, NoCompression),
                  FileRec(4, ATTR_DIRECTORY, 32, 0, NoCompression),
                  FileRec(16, ATTR_DIRECTORY, 64, 0, NoCompression),
                  FileRec(28, FileAttr, 0, 0, NoCompression),
                  FileRec(40, FileAttr, 0, 0, NoCompression) >>,
     dirs  |-> << DirRec(0, NoParent, 2, 64),
                  DirRec(64, 0, 2, 192),
                  DirRec(128, 0, 0, 320) >>,
     payload |-> <<>>,
     cut |-> 0, flip |-> -1, bad |-> {}]

\* A literal and a key_code with nothing after it: the token is cut short.
PlainT == <<4, 0, 0, 0, 11, 0, 0, 0, 200, 65, 200>>

\* Two literals (the second an escaped key_code) under a dest_size of 5.
PlainM == <<5, 0, 0, 0, 12, 0, 0, 0, 200, 65, 200, 200>>

\* A back-reference of distance 1 into an empty output.
PlainP == <<4, 0, 0, 0, 12, 0, 0, 0, 200, 200, 0, 0>>

\* A well-formed stream; the source fails on its second byte.
PlainE == <<1, 0, 0, 0, 10, 0, 0, 0, 200, 65>>

\* A flat archive of files whose payloads are defective: t and m (compressed)
\* and s (uncompressed, 5 bytes declared, 2 bytes before the end of the
\* source).
DescB ==
    [names |-> << <<<<>>, 0>>, <<<<116>>, 0>>, <<<<109>>, 0>>, <<<<115>>, 0>> >>,
     files |-> << FileRec(0, ATTR_DIRECTORY, 0, 0, NoCompression),
                  FileRec(4, FileAttr, 0, 4, 11),
                  FileRec(16, FileAttr, 11, 5, 12),
                  FileRec(28, FileAttr, 23, 5, NoCompression) >>,
     dirs  |-> << DirRec(0, NoParent, 3, 64) >>,
     payload |-> key_xor(4, KEY, PlainT) \o key_xor(5, KEY, PlainM)
                 \o key_xor(5, KEY, <<111, 107>>),
     cut |-> 0, flip |-> -1, bad |-> {}]

\* A flat archive of two compressed files: p, and e on a failing offset.
DescP ==
    [names |-> << <<<<>>, 0>>, <<<<112>>, 0>>, <<<<101>>, 0>> >>,
     files |-> << FileRec(0, ATTR_DIRECTORY, 0, 0, NoCompression),
                  FileRec(4, FileAttr, 0, 4, 12),
                  FileRec(16, FileAttr, 12, 1, 10) >>,
     dirs  |-> << DirRec(0, NoParent, 2, 64) >>,
     payload |-> key_xor(4, KEY, PlainP) \o key_xor(1, KEY, PlainE),
     cut |-> 0, flip |-> -1,
     bad |-> {HEADER_LEN + HEADER_GAP + 28 + (3 * 64) + 32 + 12 + 1}]

\* Tables whose cross references do not resolve: a/ names a directory offset
\* that is no key, f a name offset that is no key, the root counts a third
\* child beyond the file table, and the second directory names a parent that
\* is no key.
DescD ==
    [names |-> << <<<<>>, 0>>, <<<<97>>, 0>>, <<<<102>>, 0>> >>,
     files |-> << FileRec(0, ATTR_DIRECTORY, 0, 0, NoCompression),
                  FileRec(4, ATTR_DIRECTORY, 64, 0, NoCompression),
                  FileRec(5, FileAttr, 0, 0, NoCompression) >>,
     dirs  |-> << DirRec(0, NoParent, 3, 64),
                  DirRec(64, 7, 0, 0) >>,
     payload |-> <<>>,
     cut |-> 0, flip |-> -1, bad |-> {}]

\* root/ holds a/ and f, and a/ holds the same file entry f: the ranges of
\* the two directories in the file table overlap.
DescA ==
    [names |-> << <<<<>>, 0>>, <<<<97>>, 0>>, <<<<102>>, 0>> >>,
     files |-> << FileRec(0, ATTR_DIRECTORY, 0, 0, NoCompression),
                  FileRec(4, ATTR_DIRECTORY, 32, 0, NoCompression),
                  FileRec(16, FileAttr, 0, 0, NoCompression) >>,
     dirs  |-> << DirRec(0, NoParent, 2, 64),
                  DirRec(64, 0, 1, 128) >>,
     payload |-> <<>>,
     cut |-> 0, flip |-> -1, bad |-> {}]

\* root/ holds a/, and a/ holds its own file entry: a/ is reachable from
\* itself.
DescY ==
    [names |-> << <<<<>>, 0>>, <<<<97>>, 0>> >>,
     files |-> << FileRec(0, ATTR_DIRECTORY, 0, 0, NoCompression),
                  FileRec(4, ATTR_DIRECTORY, 32, 0, NoCompression) >>,
     dirs  |-> << DirRec(0, NoParent, 1, 64),
                  DirRec(64, 0, 1, 64) >>,
     payload |-> <<>>,
     cut |-> 0, flip |-> -1, bad |-> {}]

\* DescG with the first byte of the magic changed.
DescM == [DescG EXCEPT !.flip = 0]

\* DescG ending inside the second file entry.
DescT == [DescG EXCEPT !.cut = HEADER_LEN + HEADER_GAP + 28 + 64 + 20]

\* DescG with the stored parity of the name f raised by one.
DescQ == [DescG EXCEPT !.names[2] = <<<<102>>, 1>>]

\* DescG with the stored parity of the empty root name, whose len is 0, set
\* to 1.
DescE == [DescG EXCEPT !.names[1] = <<<<>>, 1>>]

\* The len field of the name entries of DescH: the least len whose product
\* with 4 does not fit in a u16.
LONG_NAME_LEN == 16384

\* An archive of one file whose name entry has len = LONG_NAME_LEN: the
\* name is 8 bytes followed by NUL bytes, its upper-case bytes add up to 511
\* and its stored parity is 0.
DescH ==
    [names |-> << <<<<>>, 0>>, <<<<1, 0, 255, 0, 255, 0, 0, 0>>, 65536 - 511, LONG_NAME_LEN>> >>,
     files |-> << FileRec(0, ATTR_DIRECTORY, 0, 0, NoCompression),
                  FileRec(4, FileAttr, 0, 0, NoCompression) >>,
     dirs  |-> << DirRec(0, NoParent, 1, 64) >>,
     payload |-> <<>>,
     cut |-> 0, flip |-> -1, bad |-> {}]

Descriptions ==
    [G |-> DescG, X |-> DescX, W |-> DescW, B |-> DescB, P |-> DescP, D |-> DescD,
     M |-> DescM, T |-> DescT, A |-> DescA, Y |-> DescY]

SourceNames == {"G", "X", "W", "B", "P", "D", "M", "T", "A", "Y"}

Image(desc) ==
    LET whole   == ArchiveImage(desc.names, desc.files, desc.dirs, desc.payload)
        flipped == SubSeq([i \in 1..Len(whole) |->
                               IF i = desc.flip + 1 THEN (whole[i] + 1) % 256 ELSE whole[i]],
                          1, Len(whole))
    IN  IF desc.cut = 0 THEN flipped ELSE SubSeq(flipped, 1, desc.cut)

SourceOf(desc) == [bytes |-> Image(desc), bad |-> desc.bad]

Sources ==
    [G |-> SourceOf(DescG), X |-> SourceOf(DescX), W |-> SourceOf(DescW),
     B |-> SourceOf(DescB), P |-> SourceOf(DescP), D |-> SourceOf(DescD),
     M |-> SourceOf(DescM), T |-> SourceOf(DescT), A |-> SourceOf(DescA),
     Y |-> SourceOf(DescY)]

(***************************************************************************)
(* The state machine: one ArchiveReader over one source, the FileReaders   *)
(* it has handed out, one WalkDirIter, and the result of the last call.    *)
(***************************************************************************)

\* Bounds of the model
MaxReaders == 2

MaxGrant == 2

MaxIndex == 2

\* The number of items the model lets one WalkDirIter yield
MaxYield == 6

\* The length of the buffer a caller reads with
BufLen == MaxGrant + 3

VARIABLES
    src,              \* the name of the source the reader was created over
    reader,           \* ArchiveReader.reader: the source, [bytes, bad]
    key,              \* ArchiveReader.key
    reader_off,       \* the offset of the source in ArchiveReader.reader
    position,         \* ArchiveReader.position, the cipher position
    header_data,      \* ArchiveReader.header_data
    borrowed,         \* the RefCell of the source is mutably borrowed
    readers,          \* the live FileReaders, a bag
    walk,             \* the WalkDirIter: its stack, and what it has yielded
    last,             \* the last call: op, arg, res
    header_called,    \* history: a read_header call has been made
    header_ok,        \* history: a read_header call has returned Ok
    failed_open,      \* history: a get_file_reader call has returned
                      \* DecompressionFailed or an I/O error
    panicked,         \* a call has panicked; the thread is gone
    unit              \* a function called on its own: fn, arg, res

vars == <<src, reader, key, reader_off, position, header_data, borrowed,
          readers, walk, last, header_called, header_ok, failed_open, panicked,
          unit>>

\* No function is called on its own
NoUnit == [fn |-> "none", arg |-> None, res |-> None]

NoWalk == [active |-> FALSE, stack |-> <<>>, yielded |-> <<>>, done |-> FALSE,
           start |-> None]

\* The entries of a description as read_file_entry / read_directory_entry
\* return them.
ParsedFile(f) ==
    [name_position |-> f.name_position, attributes |-> f.attributes,
     file_times |-> [created |-> f.created, accessed |-> f.accessed, modified |-> f.modified],
     data_position |-> f.data_position, data_size |-> f.data_size,
     compressed_data_size |-> OptionOf(f.compressed_data_size)]

ParsedDir(d) ==
    [directory_position |-> d.directory_position,
     parent_directory_position |-> OptionOf(d.parent_directory_position),
     num_files |-> d.num_files, file_head_position |-> d.file_head_position]

Range(f) == {f[x] : x \in DOMAIN f}

\* Every entry of every source: what a caller can hold, from this reader or
\* from another one.
AllFiles == UNION {{ParsedFile(f) : f \in Range(Descriptions[n].files)} : n \in SourceNames}

AllDirs == UNION {{ParsedDir(d) : d \in Range(Descriptions[n].dirs)} : n \in SourceNames}

\* Entries of another reader that the calls of the model are also made with.
ForeignFiles == {ParsedFile(DescD.files[2]), ParsedFile(DescD.files[3])}

ForeignDirs == {ParsedDir(DescW.dirs[2])}

FileArgs == (IF header_data.some THEN Range(header_data.file_table) ELSE {}) \cup ForeignFiles

DirArgs == (IF header_data.some THEN Range(header_data.directory_table) ELSE {}) \cup ForeignDirs

St == [off |-> reader_off, position |-> position]

Call(op, arg, res) == [op |-> op, arg |-> arg, res |-> res]

LiveReaders == BagToSet(readers)

\* A live FileReader: the reader, the entry it was opened for, the bytes its
\* reads have produced, and whether its last read returned Ok(0).
Live(r, f) == r @@ [entry |-> f, produced |-> <<>>, eof |-> FALSE]

\* ArchiveReader::new over a source at offset 0
Init ==
    /\ src \in SourceNames
    /\ reader = Sources[src]
    /\ key = create_key(DEFAULT_KEY_STRING)
    /\ reader_off = 0
    /\ position = 0
    /\ header_data = None
    /\ borrowed = FALSE
    /\ readers = EmptyBag
    /\ walk = NoWalk
    /\ last = Call("new", None, "Ok")
    /\ header_called = FALSE
    /\ header_ok = FALSE
    /\ failed_open = FALSE
    /\ panicked = FALSE
    /\ unit = NoUnit

\* read_header takes &mut self: no FileReader and no WalkDirIter is live.
\* checks: whether the build checks integer overflow.
ReadHeader ==
    /\ ~panicked
    /\ readers = EmptyBag /\ ~walk.active
    /\ \E checks \in BOOLEAN :
       LET Returned(r) ==
               /\ reader_off' = r.off
               /\ position' = r.position
               /\ header_data' = r.header_data
               /\ last' = Call("read_header", None, r.res)
               /\ header_ok' = (header_ok \/ r.res = "Ok")
               /\ panicked' = (r.res = "Panic")
       IN  Returned(read_header(reader, key, St, header_data, checks))
    /\ header_called' = TRUE
    /\ UNCHANGED <<src, reader, key, borrowed, readers, walk, failed_open, unit>>

\* The accessors and the walk take &self and read header_data only: they
\* commute with the calls on file readers.  The model makes them while no
\* reader is live and while the live reader is an uncompressed one, which
\* holds the borrow of the source; it opens files while no walk is active.
Quiet == \A l \in LiveReaders : l.kind = "Uncompressed"

\* A variant in which an accessor rewinds the source.
NavRewinds ==
    /\ reader_off' = 0
    /\ UNCHANGED <<src, reader, key, position, header_data, borrowed,
                   readers, walk, header_called, header_ok, failed_open, panicked, unit>>

NavUnchanged ==
    UNCHANGED <<src, reader, key, reader_off, position, header_data, borrowed,
                readers, walk, header_called, header_ok, failed_open, panicked, unit>>

GetRootDir ==
    /\ ~panicked
    /\ Quiet
    /\ last' = Call("get_root_dir", None, get_root_dir(header_data).res)
    /\ NavUnchanged

GetParentDir ==
    /\ ~panicked
    /\ Quiet
    /\ \E d \in DirArgs :
         last' = Call("get_parent_dir", None, get_parent_dir(header_data, d).res)
    /\ NavUnchanged

GetDirFromFile ==
    /\ ~panicked
    /\ Quiet
    /\ \E f \in FileArgs :
         last' = Call("get_dir_from_file", None, get_dir_from_file(header_data, f).res)
    /\ NavUnchanged

GetFileFromDir ==
    /\ ~panicked
    /\ Quiet
    /\ \E d \in DirArgs :
         last' = Call("get_file_from_dir", None, get_file_from_dir(header_data, d).res)
    /\ NavUnchanged

GetDirFile ==
    /\ ~panicked
    /\ Quiet
    /\ \E d \in DirArgs, index \in 0..MaxIndex :
         last' = Call("get_dir_file", None, get_dir_file(header_data, d, index).res)
    /\ NavUnchanged

GetFileName ==
    /\ ~panicked
    /\ Quiet
    /\ \E f \in FileArgs :
         last' = Call("get_file_name", None, get_file_name(header_data, f).res)
    /\ NavUnchanged

\* walk_dir: the model holds one iterator at a time.
WalkDir ==
    /\ ~panicked
    /\ Quiet
    /\ ~walk.active
    /\ \E d \in DirArgs :
         LET Returned(r) ==
                 /\ last' = Call("walk_dir", None, r.res)
                 /\ walk' = IF r.res = "Ok"
                            THEN [active |-> TRUE, stack |-> r.val, yielded |-> <<>>,
                                  done |-> FALSE, start |-> Some(r.val[1].file_entry)]
                            ELSE walk
         IN  Returned(walk_dir(header_data, d))
    /\ UNCHANGED <<src, reader, key, reader_off, position, header_data, borrowed,
                   readers, header_called, header_ok, failed_open, panicked, unit>>

\* WalkDirIter::next; the model stops calling it after MaxYield items.
WalkNext ==
    /\ ~panicked
    /\ walk.active
    /\ Len(walk.yielded) < MaxYield
    /\ LET Returned(r) ==
               /\ walk' = [walk EXCEPT
                             !.stack = r.stack,
                             !.yielded = IF r.item.some THEN Append(@, r.item.value) ELSE @,
                             !.done = ~r.item.some]
               /\ last' = Call("next", None,
                               IF r.item.some THEN r.item.value.res ELSE "None")
       IN  Returned(walk_next(header_data, walk.stack))
    /\ UNCHANGED <<src, reader, key, reader_off, position, header_data, borrowed,
                   readers, header_called, header_ok, failed_open, panicked, unit>>

\* The iterator is dropped.
WalkDrop ==
    /\ ~panicked
    /\ walk.active
    /\ walk' = NoWalk
    /\ last' = Call("drop_walk", None, "Ok")
    /\ UNCHANGED <<src, reader, key, reader_off, position, header_data, borrowed,
                   readers, header_called, header_ok, failed_open, panicked, unit>>

\* get_file_reader; the model holds at most MaxReaders readers.
GetFileReader ==
    /\ ~panicked
    /\ ~walk.active
    /\ \E f \in FileArgs :
         LET Returned(r) ==
                 /\ r.res = "Ok" => BagCardinality(readers) < MaxReaders
                 /\ reader_off' = r.off
                 /\ position' = r.position
                 /\ borrowed' = r.borrowed
                 /\ readers' = IF r.res = "Ok"
                               THEN readers (+) SetToBag({Live(r.reader, f)})
                               ELSE readers
                 /\ last' = Call("get_file_reader", Some(f), r.res)
                 /\ failed_open' = (failed_open \/ r.res \in {"DecompressionFailed", "Io"})
                 /\ panicked' = (r.res = "Panic")
         IN  Returned(get_file_reader(reader, key, header_data, borrowed, St, f))
    /\ UNCHANGED <<src, reader, key, header_data, walk, header_called, header_ok, unit>>

\* The reader fields of a live reader
Inner(l) == [kind |-> l.kind, offset |-> l.offset, size |-> l.size, file_data |-> l.file_data]

\* FileReader::read with a buffer of BufLen bytes; the source returns at most
\* granted bytes to one read.
Read ==
    /\ ~panicked
    /\ \E l \in LiveReaders, granted \in 1..MaxGrant :
         LET Returned(r, off) ==
                 /\ reader_off' = off
                 /\ readers' = (readers (-) SetToBag({l})) (+) SetToBag({
                        [l EXCEPT !.offset = r.reader.offset,
                                  !.produced = @ \o r.bytes,
                                  !.eof = (r.res = "Ok" /\ r.bytes = <<>>)]})
                 /\ last' = Call("read", None, r.res)
             Uncompressed(r) == Returned(r, r.off)
         IN  IF l.kind = "Uncompressed"
             THEN Uncompressed(uncompressed_read(reader, key, reader_off, Inner(l),
                                                 BufLen, granted))
             ELSE Returned(compressed_read(Inner(l), BufLen), reader_off)
    /\ UNCHANGED <<src, reader, key, position, header_data, borrowed, walk,
                   header_called, header_ok, failed_open, panicked, unit>>

\* A FileReader is dropped; an uncompressed one gives the borrow back.
DropReader ==
    /\ ~panicked
    /\ \E l \in LiveReaders :
         /\ borrowed' = IF l.kind = "Uncompressed" THEN FALSE ELSE borrowed
         /\ readers' = readers (-) SetToBag({l})
         /\ last' = Call("drop", None, "Ok")
    /\ UNCHANGED <<src, reader, key, reader_off, position, header_data, walk,
                   header_called, header_ok, failed_open, panicked, unit>>

Next ==
    \/ ReadHeader
    \/ GetRootDir
    \/ GetParentDir
    \/ GetDirFromFile
    \/ GetFileFromDir
    \/ GetDirFile
    \/ GetFileName
    \/ WalkDir
    \/ WalkNext
    \/ WalkDrop
    \/ GetFileReader
    \/ Read
    \/ DropReader

Spec == Init /\ [][Next]_vars

(***************************************************************************)
(* Functions called on their own, as a unit test calls them: the inputs    *)
(* are drawn in the initial state and one step applies the function.  The  *)
(* archive reader stands by, as new over G leaves it.                      *)
(***************************************************************************)

reader_vars == <<src, reader, key, reader_off, position, header_data, borrowed,
                 readers, walk, last, header_called, header_ok, failed_open, panicked>>

StandBy ==
    /\ src = "G"
    /\ reader = Sources[src]
    /\ key = create_key(DEFAULT_KEY_STRING)
    /\ reader_off = 0
    /\ position = 0
    /\ header_data = None
    /\ borrowed = FALSE
    /\ readers = EmptyBag
    /\ walk = NoWalk
    /\ last = Call("new", None, "Ok")
    /\ header_called = FALSE
    /\ header_ok = FALSE
    /\ failed_open = FALSE
    /\ panicked = FALSE

Unit(fn, arg) == [fn |-> fn, arg |-> arg, res |-> None]

\* The key strings create_key is called with: the canonical one with any of
\* its bytes zeroed, the all-zero string among them.
KeyStrings ==
    {SubSeq([i \in 1..KEY_LEN |-> IF i \in z THEN 0 ELSE DEFAULT_KEY_STRING[i]], 1, KEY_LEN) :
        z \in SUBSET (1..KEY_LEN)}

CreateKeyInit ==
    /\ StandBy
    /\ \E s \in KeyStrings : unit = Unit("create_key", s)

\* let key = create_key(key_string)
CallCreateKey ==
    /\ unit.fn = "create_key" /\ ~unit.res.some
    /\ unit' = [unit EXCEPT !.res = Some(create_key(unit.arg))]
    /\ UNCHANGED reader_vars

CreateKeySpec == CreateKeyInit /\ [][CallCreateKey]_vars

\* The tables of DescG behind a fixed header whose fields are given: f is
\* [fhs, fntp, ftp, dtp], written into the header whatever the tables are.
FieldImage(f) ==
    LET nt == Flatten([i \in 1..Len(DescG.names) |-> NameEntryOf(DescG.names[i])])
        ft == Flatten([i \in 1..Len(DescG.files) |-> FileEntryBytes(DescG.files[i])])
        dt == Flatten([i \in 1..Len(DescG.dirs) |-> DirectoryEntryBytes(DescG.dirs[i])])
        head == <<68, 88>> \o to_le_bytes(6, 2) \o to_le_bytes(f.fhs, 4)
                \o to_le_bytes(f.fntp + f.fhs, 8) \o to_le_bytes(f.fntp, 8)
                \o to_le_bytes(f.ftp, 8) \o to_le_bytes(f.dtp, 8) \o to_le_bytes(932, 8)
                \o HeaderGapBytes
    IN  key_xor(0, KEY, head \o nt \o ft \o dt) \o DescG.payload

\* The values the header fields are drawn from: those ArchiveImage writes for
\* DescG (252, 51, 28, 220), their neighbours, 0 and values beyond the end.
FhsValues == {0, 220, 251, 252, 253, 400}

FntpValues == {0, 3, 48, 51, 52, 400}

FtpValues == {0, 4, 27, 28, 29, U64_MAX}

DtpValues == {0, 28, 219, 220, 221, 400}

FieldCases ==
    {[kind |-> "fields", fhs |-> a, fntp |-> b, ftp |-> c, dtp |-> d] :
        a \in FhsValues, b \in FntpValues, c \in FtpValues, d \in DtpValues}

\* The archives written out from a description
ArchiveCases ==
    {[kind |-> "archive", desc |-> d] : d \in {DescG, DescW, DescQ, DescE, DescH}}

ParseSource(c) ==
    IF c.kind = "archive" THEN SourceOf(c.desc) ELSE [bytes |-> FieldImage(c), bad |-> {}]

ParseInit ==
    /\ StandBy
    /\ \E c \in FieldCases \cup ArchiveCases : unit = Unit("read_header", c)

\* ArchiveReader::new(source) followed by read_header
CallReadHeader ==
    /\ unit.fn = "read_header" /\ ~unit.res.some
    /\ \E checks \in BOOLEAN :
         LET Returned(r) == unit' = [unit EXCEPT !.res = Some(r @@ [checks |-> checks])]
         IN  Returned(read_header(ParseSource(unit.arg), KEY, [off |-> 0, position |-> 0],
                                  None, checks))
    /\ UNCHANGED reader_vars

ParseSpec == ParseInit /\ [][CallReadHeader]_vars

\* The name entries read_file_name_data is called on: the len field, the
\* name, the change of the stored parity, the offset of the entry in the
\* source (the cipher position is the offset), and whether the source ends
\* one byte before the end of the entry.
NameLens == {0, 1, 2, LONG_NAME_LEN, LONG_NAME_LEN + 1}

NameCases ==
    {[len |-> len, name |-> name, delta |-> delta, at |-> at, short |-> short] :
        len \in NameLens, name \in {<<>>, <<65>>, <<97, 98, 99, 100, 101>>},
        delta \in {0, 1}, at \in {0, 7}, short \in BOOLEAN}

NameSource(c) ==
    LET Cut(bytes) == IF c.short THEN SubSeq(bytes, 1, Len(bytes) - 1) ELSE bytes
    IN  [bytes |-> Cut(key_xor(0, KEY, Zeros(c.at)
                                        \o LongNameEntryBytes(c.name, c.delta, c.len))),
         bad |-> {}]

NameInit ==
    /\ StandBy
    /\ \E c \in NameCases :
         /\ Len(c.name) <= 4 * c.len
         /\ unit = Unit("read_file_name_data", c)

\* self.read_file_name_data() with the source and the cipher at the entry
CallReadFileNameData ==
    /\ unit.fn = "read_file_name_data" /\ ~unit.res.some
    /\ \E checks \in BOOLEAN :
         unit' = [unit EXCEPT
                    !.res = Some(read_file_name_data(NameSource(unit.arg), KEY,
                                                     [off |-> unit.arg.at,
                                                      position |-> unit.arg.at],
                                                     checks))]
    /\ UNCHANGED reader_vars

NameSpec == NameInit /\ [][CallReadFileNameData]_vars

\* Bounds of the back-reference copies: the length of the output so far and
\* the length of the run.
MaxOut == 5

MaxRun == 10

\* The output so far: every sequence of 1 to MaxOut bytes out of two values.
RECURSIVE Outputs(_)
Outputs(n) ==
    IF n = 0 THEN {<<>>}
    ELSE {Append(o, b) : o \in Outputs(n - 1), b \in {65, 66}}

\* A back-reference into the output: index (after index += 1) is at least 1
\* and at most the length of the output, run_len (after += MIN_COMPRESS) is
\* at least MIN_COMPRESS.
CopyInputs ==
    UNION {{[output |-> o, index |-> i, run_len |-> r] :
               o \in Outputs(n), i \in 1..n, r \in MIN_COMPRESS..MaxRun} : n \in 1..MaxOut}

CopyInit ==
    /\ StandBy
    /\ \E c \in CopyInputs : unit = Unit("copy_run", c)

\* The copy of decompress_file_data for one back-reference
CallCopyRun ==
    /\ unit.fn = "copy_run" /\ ~unit.res.some
    /\ unit' = [unit EXCEPT
                  !.res = Some(copy_run(unit.arg.output, unit.arg.index, unit.arg.run_len))]
    /\ UNCHANGED reader_vars

CopySpec == CopyInit /\ [][CallCopyRun]_vars

(***************************************************************************)
(* Properties                                                              *)
(***************************************************************************)

MaxDepth == 4

ULiveSet == {l \in LiveReaders : l.kind = "Uncompressed"}

ULive == ULiveSet # {}

IsPrefix(a, b) == Len(a) <= Len(b) /\ a = SubSeq(b, 1, Len(a))

\* C1 (as claimed): every read_header call made after a first read_header
\* call returns HeaderAlreadyRead, whatever the first call returned.
C1_SingleShotAnyOutcome ==
    [][(header_called /\ last'.op = "read_header") => last'.res = "HeaderAlreadyRead"]_vars

\* C1 (amended): every read_header call made after a read_header call that
\* returned Ok returns HeaderAlreadyRead, and reads nothing and changes
\* nothing.
C1_SingleShotAfterOk ==
    [][(header_ok /\ last'.op = "read_header")
         => (/\ last'.res = "HeaderAlreadyRead"
             /\ reader_off' = reader_off
             /\ position' = position
             /\ header_data' = header_data)]_vars

C1_Witness ==
    header_ok /\ last.op = "read_header" /\ last.res = "HeaderAlreadyRead"

\* C2: as long as no read_header call has returned Ok, every navigation call,
\* walk_dir and get_file_reader return HeaderNotRead for every argument: a
\* failed parse leaves no table behind.
C2_HeaderNotRead ==
    ~header_ok =>
        /\ get_root_dir(header_data).res = "HeaderNotRead"
        /\ \A d \in AllDirs :
             /\ get_parent_dir(header_data, d).res = "HeaderNotRead"
             /\ get_file_from_dir(header_data, d).res = "HeaderNotRead"
             /\ walk_dir(header_data, d).res = "HeaderNotRead"
             /\ \A index \in 0..MaxIndex :
                  get_dir_file(header_data, d, index).res = "HeaderNotRead"
        /\ \A f \in AllFiles :
             /\ get_dir_from_file(header_data, f).res = "HeaderNotRead"
             /\ get_file_name(header_data, f).res = "HeaderNotRead"
             /\ get_file_reader(reader, key, header_data, borrowed, St, f).res = "HeaderNotRead"
        /\ last.op \notin {"new", "read_header"} => last.res = "HeaderNotRead"

\* A read_header call has failed inside the file table, after the name table
\* was read, and a later call has returned HeaderNotRead.
C2_Witness ==
    /\ src = "T" /\ header_called /\ ~header_ok
    /\ last.op = "get_file_name" /\ last.res = "HeaderNotRead"

\* C3: while an uncompressed reader is live, every get_file_reader call on a
\* non-directory entry returns ReaderBusy, does not seek the source and does
\* not change the cipher position; at most one uncompressed reader is live.
C3_ReaderBusy ==
    /\ [](/\ Cardinality(ULiveSet) <= 1
          /\ \A l \in ULiveSet : CopiesIn(l, readers) = 1)
    /\ [][(ULive /\ last'.op = "get_file_reader" /\ ~is_dir(last'.arg.value))
            => (/\ last'.res = "ReaderBusy"
                /\ reader_off' = reader_off
                /\ position' = position
                /\ readers' = readers)]_vars

\* An open of a compressed entry was refused while an uncompressed reader,
\* which has read part of its file, is live.
C3_Witness ==
    /\ ULive
    /\ \E l \in ULiveSet : l.produced # <<>> /\ ~l.eof
    /\ last.op = "get_file_reader" /\ last.res = "ReaderBusy"
    /\ last.arg.value.compressed_data_size.some

\* C4: the borrow of the source is held exactly while an uncompressed reader
\* is live; a get_file_reader call made while none is live (compressed
\* readers live, an open failed before, the uncompressed reader dropped) does
\* not return ReaderBusy.
C4_BorrowHolder ==
    /\ [](borrowed <=> ULive)
    /\ [][(~ULive /\ last'.op = "get_file_reader") => last'.res # "ReaderBusy"]_vars

\* Two compressed readers are live at once, the second opened after a failed
\* open.
C4_Witness ==
    /\ failed_open /\ ~borrowed
    /\ last.op = "get_file_reader" /\ last.res = "Ok"
    /\ \E l \in LiveReaders : l.kind = "Compressed" /\ CopiesIn(l, readers) = 2

\* What opening file_entry gives when the source stands at the payload of the
\* entry.
OpenAtPayload(file_entry) ==
    open_payload(reader, key, SoughtFor(header_data, file_entry), file_entry)

\* The plain bytes of an uncompressed entry that the source holds.
PlainOf(file_entry) ==
    LET base == header_data.data_position + file_entry.data_position
    IN  key_xor(file_entry.data_size, key,
                SubSeq(reader.bytes, base + 1,
                       Min(base + file_entry.data_size, Len(reader.bytes))))

\* C5: after a get_file_reader call has returned DecompressionFailed or an
\* I/O error the tables are unchanged, and every open returns the result and
\* the bytes that the entry alone determines, whatever was opened before.
C5_FailedOpenIsLocal ==
    /\ [][failed_open => header_data' = header_data]_vars
    /\ [](failed_open =>
            /\ (last.op = "get_file_reader" /\ last.res \notin {"ReaderBusy", "NotAFile"})
                 => last.res = OpenAtPayload(last.arg.value).res
            /\ \A l \in LiveReaders :
                 IF l.kind = "Compressed"
                 THEN /\ l.file_data = OpenAtPayload(l.entry).reader.file_data
                      /\ IsPrefix(l.produced, l.file_data)
                 ELSE IsPrefix(l.produced, PlainOf(l.entry)))

\* After a failed open, a reader of another entry has been read to its end.
C5_Witness ==
    /\ failed_open
    /\ \E l \in LiveReaders : l.eof /\ l.produced # <<>>

\* C6 (as claimed): get_file_reader on a compressed entry returns a reader or
\* an error, DecompressionFailed for a malformed stream; the decompressor
\* never aborts.
C6_DecompressorTotal ==
    last.op = "get_file_reader" => last.res # "Panic"

\* The keys of the three tables on the disk of a description
RECURSIVE NameOffsets(_, _)
NameOffsets(names, at) ==
    IF names = <<>> THEN {}
    ELSE {at} \cup NameOffsets(Tail(names),
                               at + Len(NameEntryOf(Head(names))))

FileOffsets(desc) == {FILE_ENTRY_SIZE * (i - 1) : i \in 1..Len(desc.files)}

DirOffsets(desc) == {(4 * 8) * (i - 1) : i \in 1..Len(desc.dirs)}

\* The cross references written to the disk resolve.
DescClosed(desc) ==
    /\ \A i \in 1..Len(desc.files) :
         /\ desc.files[i].name_position \in NameOffsets(desc.names, 0)
         /\ is_dir(desc.files[i]) => desc.files[i].data_position \in DirOffsets(desc)
    /\ \A i \in 1..Len(desc.dirs) :
         /\ desc.dirs[i].parent_directory_position # NoParent
              => desc.dirs[i].parent_directory_position \in DirOffsets(desc)
         /\ desc.dirs[i].num_files <= Len(desc.files)
         /\ \A n \in 0..(desc.dirs[i].num_files - 1) :
              desc.dirs[i].file_head_position + FILE_ENTRY_SIZE * n \in FileOffsets(desc)

\* Cross-table closure of the parsed tables
Closed(h) ==
    /\ \A f \in Range(h.file_table) :
         /\ HasKey(h.file_name_table, f.name_position)
         /\ is_dir(f) => HasKey(h.directory_table, f.data_position)
    /\ \A d \in Range(h.directory_table) :
         /\ d.parent_directory_position.some
              => HasKey(h.directory_table, d.parent_directory_position.value)
         /\ d.num_files <= Cardinality(DOMAIN h.file_table)
         /\ \A n \in 0..(d.num_files - 1) :
              HasKey(h.file_table, d.file_head_position + FILE_ENTRY_SIZE * n)

\* C7 (as claimed): after a successful read_header the three tables are
\* closed under each other's references.
C7_ClosureAlways ==
    header_ok => Closed(header_data)

\* C7 (amended): a successful read_header stores each entry under its offset
\* in its table and checks no reference: the tables are closed when the
\* references on the disk are, and otherwise the lookup through a reference
\* that is no key reports its Invalid* error.
C7_ClosureOfClosedArchives ==
    header_ok =>
        /\ DOMAIN header_data.file_name_table = NameOffsets(Descriptions[src].names, 0)
        /\ DOMAIN header_data.file_table = FileOffsets(Descriptions[src])
        /\ DOMAIN header_data.directory_table = DirOffsets(Descriptions[src])
        /\ DescClosed(Descriptions[src]) => Closed(header_data)
        /\ \A f \in FileArgs :
             /\ ~HasKey(header_data.file_name_table, f.name_position)
                  => get_file_name(header_data, f).res = "InvalidFileNamePosition"
             /\ (is_dir(f) /\ ~HasKey(header_data.directory_table, f.data_position))
                  => get_dir_from_file(header_data, f).res = "InvalidDirectoryPosition"
        /\ \A d \in DirArgs :
             /\ (d.parent_directory_position.some
                   /\ ~HasKey(header_data.directory_table, d.parent_directory_position.value))
                  => get_parent_dir(header_data, d).res = "InvalidDirectoryPosition"
             /\ \A index \in 0..MaxIndex :
                  (index < d.num_files
                     /\ ~HasKey(header_data.file_table,
                                d.file_head_position + FILE_ENTRY_SIZE * index))
                    => get_dir_file(header_data, d, index).res = "InvalidDirectoryFileIndex"

\* The header of the nested archive has been read, and a lookup has been
\* answered from its tables.
C7_Witness ==
    /\ src = "W" /\ header_ok /\ Closed(header_data)
    /\ Cardinality(DOMAIN header_data.directory_table) = 3
    /\ last.op = "get_dir_file" /\ last.res = "Ok"

\* The tree under file_entry resolves: every directory, child and name on the
\* way is found, within depth levels.
RECURSIVE Resolves(_, _, _)
Resolves(h, file_entry, depth) ==
    /\ depth > 0
    /\ is_dir(file_entry) =>
         /\ get_dir_from_file(h, file_entry).res = "Ok"
         /\ LET d == get_dir_from_file(h, file_entry).val
            IN  /\ d.num_files <= Cardinality(DOMAIN h.file_table)
                /\ \A index \in 0..(d.num_files - 1) :
                     /\ get_dir_file(h, d, index).res = "Ok"
                     /\ get_file_name(h, get_dir_file(h, d, index).val.value).res = "Ok"
                     /\ Resolves(h, get_dir_file(h, d, index).val.value, depth - 1)

\* The depth-first pre-order listing of the tree under file_entry, the
\* children of a directory by increasing get_dir_file index.
RECURSIVE PreOrder(_, _, _)
PreOrder(h, file_entry, path_components) ==
    LET item == Result("Ok", [file_entry |-> file_entry, path_components |-> path_components])
    IN  IF ~is_dir(file_entry) THEN <<item>>
        ELSE LET d == get_dir_from_file(h, file_entry).val
                 child(index) == get_dir_file(h, d, index).val.value
             IN  <<item>> \o Flatten([i \in 1..d.num_files |->
                     PreOrder(h, child(i - 1),
                              Append(path_components, get_file_name(h, child(i - 1)).val))])

\* C8: what a WalkDirIter has yielded is a prefix of the pre-order listing of
\* the tree under its start, with the path components of each item, and the
\* whole listing once next has returned None.
C8_WalkPreOrder ==
    (walk.active /\ Resolves(header_data, walk.start.value, MaxDepth)) =>
        /\ IsPrefix(walk.yielded, PreOrder(header_data, walk.start.value, <<>>))
        /\ walk.done => walk.yielded = PreOrder(header_data, walk.start.value, <<>>)

\* The walk of the root of the nested archive has ended: root, a, a/x, a/y, b.
C8_Witness ==
    /\ src = "W" /\ walk.active /\ walk.done
    /\ Len(walk.yielded) = 5
    /\ Len(walk.yielded[3].val.path_components) = 2
    /\ Len(walk.yielded[5].val.path_components) = 1

\* C9 (as claimed): a reader read to its end has produced exactly data_size
\* bytes, for compressed and for uncompressed entries.
C9_ProducesDataSize ==
    \A l \in LiveReaders : l.eof => Len(l.produced) = l.entry.data_size

\* The payload of an uncompressed entry lies within the source, on offsets
\* that can be read.
PayloadInSource(file_entry) ==
    LET base == header_data.data_position + file_entry.data_position
    IN  /\ base + file_entry.data_size <= Len(reader.bytes)
        /\ \A o \in reader.bad : o < base \/ o >= base + file_entry.data_size

\* C9 (amended): an uncompressed reader produces at most data_size bytes, and
\* exactly data_size bytes at its end when the source holds the payload; a
\* compressed reader produces the decompressed output, whose dest_size field
\* equals data_size but whose length is not checked against it.
C9_ProducesWhatIsThere ==
    \A l \in LiveReaders :
        IF l.kind = "Uncompressed"
        THEN /\ Len(l.produced) <= l.entry.data_size
             /\ (l.eof /\ PayloadInSource(l.entry)) => Len(l.produced) = l.entry.data_size
             /\ l.eof => l.produced = PlainOf(l.entry)
        ELSE /\ Len(l.produced) <= Len(l.file_data)
             /\ l.eof => l.produced = l.file_data
             /\ LET base == header_data.data_position + l.entry.data_position
                IN  from_le_bytes(key_xor(l.entry.data_size, key,
                                          SubSeq(reader.bytes, base + 1, base + 4)))
                      = l.entry.data_size

\* An uncompressed reader has been read to its end and has produced the
\* data_size bytes of its entry.
C9_Witness ==
    \E l \in LiveReaders :
        /\ l.kind = "Uncompressed" /\ l.eof
        /\ l.entry.data_size > 0 /\ Len(l.produced) = l.entry.data_size

\* C10: create_key of the canonical key string is
\* {199, 5, 202, 125, 141, 227, 222, 241, 217, 12, 133, 244}.
C10_CreateKey ==
    /\ DEFAULT_KEY_STRING = <<56, 80, 64, 40, 114, 79, 33, 112, 59, 115, 53, 56>>
    /\ key = <<199, 5, 202, 125, 141, 227, 222, 241, 217, 12, 133, 244>>

\* The reader holds the key made by create_key and has decoded a header with
\* it.
C10_Witness ==
    /\ key = create_key(DEFAULT_KEY_STRING)
    /\ Len(key) = KEY_LEN
    /\ header_ok

\* C11 (as claimed): create_key of the all-zero key string is
\* {0xFF, 0x00, 0x8A, 0x0F, 0xFF, 0xAC, 0xFF, 0xFF, 0x00, 0x7F, 0xD6, 0xCC}.
C11_ZeroKeyAsClaimed ==
    (unit.fn = "create_key" /\ unit.res.some /\ unit.arg = Zeros(KEY_LEN))
        => unit.res.value = <<255, 0, 138, 15, 255, 172, 255, 255, 0, 127, 214, 204>>

\* C11 (amended): create_key of the all-zero key string is
\* {0xFF, 0x00, 0x8A, 0xFF, 0xFF, 0xAC, 0xFF, 0xFF, 0x00, 0x7F, 0xD6, 0xCC}:
\* key[3] is the complement of the nibble swap of 0, which is 0xFF.
C11_ZeroKey ==
    (unit.fn = "create_key" /\ unit.res.some /\ unit.arg = Zeros(KEY_LEN))
        => unit.res.value = <<255, 0, 138, 255, 255, 172, 255, 255, 0, 127, 214, 204>>

\* create_key has been called with the all-zero key string and has returned.
C11_Witness ==
    /\ unit.fn = "create_key" /\ unit.res.some
    /\ unit.arg = <<0, 0, 0, 0, 0, 0, 0, 0, 0, 0, 0, 0>>
    /\ Len(unit.res.value) = KEY_LEN

\* The name entries of a description whose stored parity is not the sum of
\* their upper-case bytes.
ParityDefects(desc) == {i \in DOMAIN desc.names : desc.names[i][2] % 65536 # 0}

\* The entry at offset at of the source bytes has 4 + 8 * len bytes, and its
\* stored parity is the wrapping 16-bit sum of its 4 * len upper-case bytes.
ParityEquation(bytes, at) ==
    LET Field(o) == from_le_bytes(key_xor(at + o, KEY, SubSeq(bytes, at + o + 1, at + o + 2)))
        Holds(len, parity) ==
            /\ at + 4 + (8 * len) <= Len(bytes)
            /\ Sum16(key_xor(at + 4, KEY, SubSeq(bytes, at + 5, at + 4 + (4 * len)))) = parity
    IN  at + 4 <= Len(bytes) /\ Holds(Field(0), Field(2))

\* file_name_table_position as the fixed header of the source bytes gives it
FntpOf(bytes) == from_le_bytes(key_xor(16, KEY, SubSeq(bytes, 17, 24)))

\* C12: read_header returns InvalidFileNameParity when a name entry of an
\* otherwise valid archive has a stored parity that differs from the wrapping
\* 16-bit sum of its 4 * len upper-case bytes (len = 0 with a non-zero parity
\* included), and when read_header returns Ok every entry it parsed satisfies
\* the parity equation.
C12_ParityEnforced ==
    (unit.fn = "read_header" /\ unit.res.some) =>
        /\ (unit.arg.kind = "archive" /\ ParityDefects(unit.arg.desc) # {})
              => unit.res.value.res = "InvalidFileNameParity"
        /\ unit.res.value.res = "Ok" =>
              LET Parsed(bytes) ==
                      \A o \in DOMAIN unit.res.value.header_data.file_name_table :
                          ParityEquation(bytes, FntpOf(bytes) + o)
              IN  Parsed(ParseSource(unit.arg).bytes)

\* The accessors of the tables and the walk
NavOps == {"get_root_dir", "get_parent_dir", "get_dir_from_file", "get_file_from_dir",
           "get_dir_file", "get_file_name", "walk_dir", "next"}

\* C13: once read_header has returned Ok, get_root_dir, get_parent_dir,
\* get_dir_from_file, get_file_from_dir, get_dir_file, get_file_name, walk_dir
\* and the iteration of the walk never return ReaderBusy, also while an
\* uncompressed FileReader is live; they leave the source offset, the cipher
\* position, the parsed tables and the live readers as they were, and the
\* bytes a live uncompressed reader produces, before and after such a call,
\* are the bytes of its payload.
C13_NavigationFrame ==
    [][(header_data.some /\ last'.op \in NavOps) =>
          /\ last'.res # "ReaderBusy"
          /\ reader_off' = reader_off
          /\ position' = position
          /\ header_data' = header_data
          /\ readers' = readers
          /\ borrowed' = borrowed
          /\ \A l \in ULiveSet : IsPrefix(l.produced, PlainOf(l.entry))]_vars

\* An accessor has returned Ok while an uncompressed reader is live that has
\* produced a part of its payload, and the walk has yielded entries beside it.
C13_Witness ==
    /\ header_data.some
    /\ last.op = "get_file_name" /\ last.res = "Ok"
    /\ \E l \in ULiveSet : l.produced # <<>> /\ ~l.eof /\ borrowed
    /\ walk.active /\ walk.yielded # <<>>

\* C14: while the header is being parsed the cipher position equals the
\* offset of the source: after every read_header call on a reader created
\* over a source at offset 0, a failed call on a short read included, and so
\* at the start of a read_header call made after a failed one.
C14_Lockstep ==
    /\ ~header_data.some => position = reader_off
    /\ (last.op = "read_header" /\ last.res = "Ok") => position = reader_off

\* The j-th byte (from 1) of the payload of an entry as the source holds it
RawPayloadByte(file_entry, j) ==
    reader.bytes[header_data.data_position + file_entry.data_position + j]

\* C15: whatever the lengths of the reads and however short the source cuts
\* them, the j-th byte (from 0) an uncompressed reader of an entry of size S
\* produces is the raw payload byte j XOR key[(S + j) mod 12]; the offset of
\* the reader is the number of bytes produced and never exceeds S; and a read
\* at offset = S returns 0 bytes and leaves the source where it was.
C15_ChunkingIndependent ==
    /\ [](\A l \in ULiveSet :
            /\ l.size = l.entry.data_size
            /\ l.offset = Len(l.produced) /\ l.offset <= l.size
            /\ \A j \in 1..Len(l.produced) :
                 l.produced[j] = BitXor(RawPayloadByte(l.entry, j),
                                        key[((l.size + (j - 1)) % KEY_LEN) + 1]))
    /\ [][((\E l \in ULiveSet : l.offset = l.size) /\ last'.op = "read") =>
             /\ last'.res = "Ok"
             /\ reader_off' = reader_off
             /\ \A l \in ULiveSet : [l EXCEPT !.eof = TRUE] \in ULiveSet'
                                       \/ l \in ULiveSet']_vars

\* An uncompressed reader has produced the three bytes of its payload, and a
\* further read has returned 0 bytes.
C15_Witness ==
    /\ last.op = "read"
    /\ \E l \in ULiveSet :
         l.eof /\ l.size = 3 /\ l.offset = l.size /\ Len(l.produced) = l.size

\* The byte-by-byte copy of a back-reference: run_len times, append the byte
\* that lies index bytes before the end of the output.
RECURSIVE ByteByByte(_, _, _)
ByteByByte(out, index, run_len) ==
    IF run_len = 0 THEN out
    ELSE ByteByByte(Append(out, out[Len(out) + 1 - index]), index, run_len - 1)

\* C16: for an output of n bytes, a distance index with 1 <= index <= n and a
\* run of run_len bytes, the copy of the decompressor appends exactly run_len
\* bytes, and appended byte t is out[n + t - index], where out includes the
\* bytes appended before it: the result is that of the byte-by-byte copy, in
\* the branch index < run_len and in the branch index >= run_len.
C16_CopyIsByteByByte ==
    (unit.fn = "copy_run" /\ unit.res.some) =>
        /\ unit.res.value.res = "Some"
        /\ Len(unit.res.value.output) = Len(unit.arg.output) + unit.arg.run_len
        /\ unit.res.value.output
             = ByteByByte(unit.arg.output, unit.arg.index, unit.arg.run_len)
        /\ \A t \in 0..(unit.arg.run_len - 1) :
             unit.res.value.output[Len(unit.arg.output) + t + 1]
               = unit.res.value.output[Len(unit.arg.output) + t + 1 - unit.arg.index]

\* A run that the window has doubled for twice and that ends inside the
\* third window has been copied behind an output of two different bytes.
C16_Witness ==
    /\ unit.fn = "copy_run" /\ unit.res.some
    /\ unit.arg.output = <<65, 66>> /\ unit.arg.index = 2 /\ unit.arg.run_len = 9
    /\ unit.res.value.output = <<65, 66, 65, 66, 65, 66, 65, 66, 65, 66, 65>>

\* A run has been copied in the branch index >= run_len.
C16_WitnessFar ==
    /\ unit.fn = "copy_run" /\ unit.res.some
    /\ unit.arg.index >= unit.arg.run_len
    /\ Len(unit.res.value.output) = Len(unit.arg.output) + unit.arg.run_len

\* C17: for every len in 0..65535, read_file_name_data on an entry with the
\* length field len returns without a panic, and when it returns Ok it has
\* advanced the cipher position by exactly 4 + 8 * len bytes (4 for len = 0).
C17_NameAdvance ==
    (unit.fn = "read_file_name_data" /\ unit.res.some) =>
        /\ unit.res.value.res # "Panic"
        /\ unit.res.value.res = "Ok" =>
              unit.res.value.position = unit.arg.at + 4 + (8 * unit.arg.len)

\* More levels than the file table has entries: a tree under an entry that
\* resolves to this depth has no directory that is reachable from itself.
WalkDepth(h) == Cardinality(DOMAIN h.file_table) + 1

\* Every directory, child and name under file_entry is found, down to depth
\* levels.
RECURSIVE Unfolds(_, _, _)
Unfolds(h, file_entry, depth) ==
    (depth > 0 /\ is_dir(file_entry)) =>
         /\ get_dir_from_file(h, file_entry).res = "Ok"
         /\ LET d == get_dir_from_file(h, file_entry).val
            IN  /\ d.num_files <= Cardinality(DOMAIN h.file_table)
                /\ \A index \in 0..(d.num_files - 1) :
                     /\ get_dir_file(h, d, index).res = "Ok"
                     /\ get_file_name(h, get_dir_file(h, d, index).val.value).res = "Ok"
                     /\ Unfolds(h, get_dir_file(h, d, index).val.value, depth - 1)

\* The child relation under file_entry is finite and acyclic, and all
\* references resolve.
Acyclic(h, file_entry) == Resolves(h, file_entry, WalkDepth(h))

\* All references resolve, and a directory under file_entry is reachable from
\* itself.
SelfReachable(h, file_entry) ==
    Unfolds(h, file_entry, WalkDepth(h)) /\ ~Resolves(h, file_entry, WalkDepth(h))

EntriesOf(items) == SubSeq([i \in 1..Len(items) |-> items[i].val.file_entry], 1, Len(items))

NoDuplicates(seq) == \A i, j \in 1..Len(seq) : i # j => seq[i] # seq[j]

\* What the claim says of a walk: every entry is yielded at most once, the
\* stack holds only entries not yet yielded, and when next has returned None
\* every reachable entry has been yielded.
WalkYieldsOnce ==
    /\ NoDuplicates(EntriesOf(walk.yielded))
    /\ \A i \in 1..Len(walk.stack) :
         walk.stack[i].file_entry \notin Range(EntriesOf(walk.yielded))
    /\ walk.done =>
         Range(EntriesOf(walk.yielded))
           = Range(EntriesOf(PreOrder(header_data, walk.start.value, <<>>)))

\* C18 (as claimed): when the child relation under the start is finite and
\* acyclic and all references resolve, repeated calls of next yield every
\* reachable entry exactly once and then return None, and the stack holds
\* only entries not yet yielded; when a directory is reachable from itself
\* next never returns None.
C18_WalkOnAcyclic ==
    /\ (walk.active /\ Acyclic(header_data, walk.start.value)) => WalkYieldsOnce
    /\ (walk.active /\ SelfReachable(header_data, walk.start.value)) => ~walk.done

\* C18 (amended): the same for a tree, where every reachable entry is
\* reached along one path only; an entry that two directories list, or that
\* one lists twice, is yielded once for each path to it.
C18_WalkOnTree ==
    /\ (/\ walk.active
        /\ Acyclic(header_data, walk.start.value)
        /\ NoDuplicates(EntriesOf(PreOrder(header_data, walk.start.value, <<>>))))
         => WalkYieldsOnce
    /\ (walk.active /\ Acyclic(header_data, walk.start.value)) =>
         /\ Len(walk.yielded) <= Len(PreOrder(header_data, walk.start.value, <<>>))
         /\ walk.done => Len(walk.yielded) = Len(PreOrder(header_data, walk.start.value, <<>>))
    /\ (walk.active /\ SelfReachable(header_data, walk.start.value)) => ~walk.done

\* The walk of the root of the nested archive has yielded its five entries
\* and next has returned None.
C18_Witness ==
    /\ src = "W" /\ walk.active /\ walk.done /\ walk.stack = <<>>
    /\ Acyclic(header_data, walk.start.value)
    /\ Cardinality(Range(EntriesOf(walk.yielded))) = 5

\* The walk of a directory that is reachable from itself has yielded it
\* three times.
C18_WitnessCycle ==
    /\ walk.active /\ SelfReachable(header_data, walk.start.value)
    /\ Len(walk.yielded) >= 3
    /\ walk.yielded[2].val.file_entry = walk.yielded[3].val.file_entry

\* The keys of a table lie step bytes apart, from the first to the last.
EvenlySpaced(table, step) ==
    \A o \in DOMAIN table :
        o = MinOf(DOMAIN table) \/ o - step \in DOMAIN table

\* C19: for every combination of file_name_table_position,
\* file_table_position, directory_table_position and file_header_size, the
\* differences the three loops of read_header take are never negative and
\* every iteration moves the cipher position on (by at least 4, by 64 and by
\* 32 bytes), so that read_header ends in Ok or in an error: it does not
\* panic, and the keys it has stored lie 4 or more, 64 and 32 bytes apart.
C19_LoopsEndInResult ==
    (unit.fn = "read_header" /\ unit.res.some) =>
        /\ unit.res.value.res # "Panic"
        /\ unit.res.value.res = "Ok" =>
              /\ \A o \in DOMAIN unit.res.value.header_data.file_name_table : o >= 0
              /\ \A o, q \in DOMAIN unit.res.value.header_data.file_name_table :
                   o < q => q - o >= 4
              /\ EvenlySpaced(unit.res.value.header_data.file_table, FILE_ENTRY_SIZE)
              /\ EvenlySpaced(unit.res.value.header_data.directory_table, 4 * 8)
              /\ \A o \in DOMAIN unit.res.value.header_data.file_table : o >= 0
              /\ \A o \in DOMAIN unit.res.value.header_data.directory_table : o >= 0

\* What holds of the loops in spite of C17: the only panic of read_header is
\* the one of len * 4 in a build that checks overflow; no difference is
\* below zero.
C19_OnlyTheProductPanics ==
    (unit.fn = "read_header" /\ unit.res.some /\ unit.res.value.res = "Panic")
        => unit.res.value.checks

====
